---- MODULE Spec2Model ----
(***************************************************************************)
(* Model of the collocation integrator plugin (casadi/solvers/             *)
(* collocation.cpp): option handling, derivation of the collocation        *)
(* coefficients, the forward and backward discrete-time step relations,    *)
(* and the initial guesses written by reset / resetB.                      *)
(*                                                                         *)
(* Reals are modelled as exact rationals <<n, d>> in lowest terms (d > 0); *)
(* floating-point rounding is not modelled.                                *)
(***************************************************************************)
EXTENDS Integers, Sequences, FiniteSets, TLC

\* ------------------------------------------------------------------ bounds

\* Largest interpolation order an option dictionary may ask for.
MaxDeg == 3
\* Largest degree for which the root-finder of the model solves the systems.
MaxSolveDeg == 2
\* Largest number of differential / algebraic states (nx, nz, nrx, nrz).
MaxDim == 1

\* Default interpolation order (collocation.cpp:70).
DefaultDeg == 3

\* ------------------------------------------------------ rational arithmetic

RECURSIVE Gcd(_, _)
Gcd(a, b) == IF b = 0 THEN a ELSE Gcd(b, a % b)

Abs(n) == IF n < 0 THEN -n ELSE n

\* The rational n/d in lowest terms with a positive denominator.
Rat(n, d) ==
  LET s == IF d < 0 THEN -1 ELSE 1
      g == Gcd(Abs(n), Abs(d))
  IN  <<(s * n) \div g, (s * d) \div g>>

R(n) == <<n, 1>>
Zero == R(0)
One == R(1)

RNeg(a) == <<-a[1], a[2]>>
RAdd(a, b) ==
  LET g == Gcd(a[2], b[2])
  IN  Rat(a[1] * (b[2] \div g) + b[1] * (a[2] \div g), (a[2] \div g) * b[2])
RSub(a, b) == RAdd(a, RNeg(b))
RMul(a, b) ==
  LET g1 == Gcd(Abs(a[1]), b[2])
      g2 == Gcd(Abs(b[1]), a[2])
  IN  Rat((a[1] \div g1) * (b[1] \div g2), (a[2] \div g2) * (b[2] \div g1))
RInv(a) == IF a[1] < 0 THEN <<-a[2], -a[1]>> ELSE <<a[2], a[1]>>
RDiv(a, b) == RMul(a, RInv(b))

\* The sequence s, written out entry by entry (the same value as s).
Fix(s) == <<>> \o s

\* Sum of f[i] for i in lo..hi.
RECURSIVE RSum(_, _, _)
RSum(f, lo, hi) == IF lo > hi THEN Zero ELSE RAdd(RSum(f, lo, hi - 1), f[hi])

\* ------------------------------------------------------------- polynomials
\* casadi::Polynomial: coefficient list, lowest degree first.

\* Polynomial(-tau, 1): the linear polynomial t - tau.
Linear(c0, c1) == <<c0, c1>>

PolyCoeff(p, i) == IF i \in 1..Len(p) THEN p[i] ELSE Zero

\* Polynomial product (operator*=).
PolyMul(p, q) ==
  Fix([k \in 1..(Len(p) + Len(q) - 1) |->
     RSum(Fix([i \in 1..Len(p) |-> RMul(p[i], PolyCoeff(q, k - i + 1))]), 1, Len(p))])

\* Division of every coefficient by a scalar (operator/).
PolyScalarDiv(p, s) == Fix([i \in 1..Len(p) |-> RDiv(p[i], s)])

\* Evaluation at a scalar (operator()), by Horner's rule.
RECURSIVE PolyEvalFrom(_, _, _)
PolyEvalFrom(p, x, i) ==
  IF i > Len(p) THEN Zero ELSE RAdd(p[i], RMul(x, PolyEvalFrom(p, x, i + 1)))
PolyEval(p, x) == PolyEvalFrom(p, x, 1)

\* derivative(): sum i*c_i t^(i-1).
PolyDerivative(p) ==
  IF Len(p) <= 1 THEN <<Zero>>
  ELSE Fix([i \in 1..(Len(p) - 1) |-> RMul(R(i), p[i + 1])])

\* anti_derivative(): constant term 0, so the value at 0 is 0.
PolyAntiDerivative(p) ==
  Fix([i \in 1..(Len(p) + 1) |-> IF i = 1 THEN Zero ELSE RDiv(p[i - 1], R(i - 1))])

\* ------------------------------------------------------ collocation points

Schemes == {"radau", "legendre"}

\* collocation_points(order, scheme): the order nodes of the quadrature rule
\* in (0, 1], increasing.  Rational roots are exact; irrational roots are
\* rounded to one decimal.  Tabulated for order 1..4.
collocation_points(order, scheme) ==
  IF scheme = "radau" THEN
    CASE order = 1 -> <<One>>
      [] order = 2 -> <<Rat(1, 3), One>>
      [] order = 3 -> <<Rat(1, 5), Rat(3, 5), One>>
      [] order = 4 -> <<Rat(1, 10), Rat(2, 5), Rat(4, 5), One>>
  ELSE
    CASE order = 1 -> <<Rat(1, 2)>>
      [] order = 2 -> <<Rat(1, 5), Rat(4, 5)>>
      [] order = 3 -> <<Rat(1, 10), Rat(1, 2), Rat(9, 10)>>
      [] order = 4 -> <<Rat(1, 10), Rat(3, 10), Rat(7, 10), Rat(9, 10)>>

\* The error collocation_points raises, "none" when it returns normally.
collocation_points_error(order, scheme) ==
  IF order < 1 THEN "InvalidDegree"
  ELSE IF scheme \notin Schemes THEN "InvalidScheme"
  ELSE "none"

\* tau_root after tau_root.insert(tau_root.begin(), 0): indexed 0..deg.
TauRoot(deg, scheme) ==
  LET pts == <<Zero>> \o collocation_points(deg, scheme)
  IN  [j \in 0..deg |-> pts[j + 1]]

\* ------------------------------------------------- collocation coefficients

\* The loop building the Lagrange polynomial of node j (p starts at 1, r runs
\* over 0..deg and skips j).
RECURSIVE LagrangeLoop(_, _, _, _, _)
LagrangeLoop(tau, deg, j, r, p) ==
  IF r > deg THEN p
  ELSE IF r # j
    THEN LagrangeLoop(tau, deg, j, r + 1,
           PolyScalarDiv(PolyMul(p, Linear(RNeg(tau[r]), One)), RSub(tau[j], tau[r])))
    ELSE LagrangeLoop(tau, deg, j, r + 1, p)

\* Mutant of LagrangePoly: the loop starts at r = 1 and leaves out node 0.
LagrangePoly_skip0(tau, deg, j) == LagrangeLoop(tau, deg, j, 1, <<One>>)

\* The Lagrange polynomial of node j.
LagrangePoly(tau, deg, j) == LagrangeLoop(tau, deg, j, 0, <<One>>)

\* Mutant of CoefD: the indicator is used whatever the scheme.
CoefD_indicator(scheme, deg, j, p) == IF j = deg THEN One ELSE Zero

\* Mutant of CoefD: the radau indicator tests j == 0 instead of j == deg.
CoefD_first(scheme, deg, j, p) ==
  IF scheme = "radau"
    THEN (IF j = 0 THEN One ELSE Zero)
    ELSE PolyEval(p, One)

\* Mutant of CoefD: the polynomial is evaluated at 1 whatever the scheme.
CoefD_evaluated(scheme, deg, j, p) == PolyEval(p, One)

\* D[j]: coefficient of the continuity equation, p the polynomial of node j.
CoefD(scheme, deg, j, p) ==
  IF scheme = "radau"
    THEN (IF j = deg THEN One ELSE Zero)
    ELSE PolyEval(p, One)

\* C[j][r]: time derivative of the polynomial of node j at collocation point r.
CoefC(tau, r, p) == PolyEval(PolyDerivative(p), tau[r])

\* Mutant of CoefB: the derivative is evaluated instead of the antiderivative.
CoefB_deriv(p) == PolyEval(PolyDerivative(p), One)

\* B[j]: coefficient of the quadratures.
CoefB(p) == PolyEval(PolyAntiDerivative(p), One)

\* The function with domain 0..deg whose value at j is s[j + 1].
FromZero(s) == [j \in 0..(Len(s) - 1) |-> s[j + 1]]

\* All coefficient sets of one (deg, scheme): the loop over j in 0..deg.
Coefficients(deg, scheme) ==
  LET tau == TauRoot(deg, scheme)
      ps  == Fix([k \in 1..(deg + 1) |-> LagrangePoly(tau, deg, k - 1)])
  IN  [tau_root |-> tau,
       C |-> FromZero(Fix([k \in 1..(deg + 1) |->
               FromZero(Fix([i \in 1..(deg + 1) |-> CoefC(tau, i - 1, ps[k])]))])),
       D |-> FromZero(Fix([k \in 1..(deg + 1) |-> CoefD(scheme, deg, k - 1, ps[k])])),
       B |-> FromZero(Fix([k \in 1..(deg + 1) |-> CoefB(ps[k])]))]

\* ------------------------------------------------------------------ vectors
\* A vector is a sequence of rationals.

VZero(n) == Fix([i \in 1..n |-> Zero])
VAdd(x, y) == Fix([i \in 1..Len(x) |-> RAdd(x[i], y[i])])
VSub(x, y) == Fix([i \in 1..Len(x) |-> RSub(x[i], y[i])])
VScale(c, x) == Fix([i \in 1..Len(x) |-> RMul(c, x[i])])

\* vertcat of a list of vectors.
RECURSIVE vertcat(_)
vertcat(xs) == IF Len(xs) = 0 THEN <<>> ELSE Head(xs) \o vertcat(Tail(xs))

\* repmat(x, n): n copies of x stacked.
RECURSIVE repmat(_, _)
repmat(x, n) == IF n <= 0 THEN <<>> ELSE x \o repmat(x, n - 1)

\* vertsplit(v, offset): piece k holds the rows offset[k] .. offset[k+1]-1.
vertsplit(v, offset) ==
  Fix([k \in 1..(Len(offset) - 1) |-> SubSeq(v, offset[k] + 1, offset[k + 1])])

\* ------------------------------------------------------------------- state

VARIABLES
  pc,                   \* "new", "ready" (constructed) or "error" (construction threw)
  err,                  \* the error construction ended with, "none" otherwise
  opts,                 \* the option dictionary given to the constructor
  dae_a,                \* coefficient a of the DAE callable
  has_g,                \* a backward DAE is supplied (g_ is not null)
  t0_, h_,              \* start time and step size of the time grid
  nx_, nz_,             \* dimensions of the forward problem
  nrx_, nrz_,           \* dimensions of the backward problem (those of the forward
                        \* problem when g_ is its reverse-mode derivative, else 0)
  deg_,                 \* interpolation order (0 until init assigns it)
  collocation_scheme_,  \* scheme name ("" until init assigns it)
  tau_root, C, D, B,    \* coefficients held by the step relations (<<>> until computed)
  F_built, G_built,     \* F_ ("fstep") and G_ ("bstep") exist
  mem,                  \* the memory object of the integration run
  other,                \* the memory object of another integration run
  out,                  \* the last evaluation of a step relation (<<>> before any)
  stream,               \* the persisted record, a sequence of items (<<>> before save)
  unpacked,             \* number of items of the record a load has consumed
  orig                  \* what the saving instance was and computed (<<>> before save)

vars == <<pc, err, opts, dae_a, has_g, t0_, h_, nx_, nz_, nrx_, nrz_, deg_,
          collocation_scheme_, tau_root, C, D, B, F_built, G_built, mem,
          other, out, stream, unpacked, orig>>

config == <<opts, dae_a, has_g, t0_, h_, nx_, nz_, nrx_, nrz_>>
built == <<deg_, collocation_scheme_, tau_root, C, D, B, F_built, G_built>>
persist == <<stream, unpacked, orig>>

\* --------------------------------------------------------- the DAE callables
\* f_: (t, x, z, p, u) -> (ode, alg, quad), the linear DAE
\*   dx/dt = a*x + p,  0 = z - u - t,  dq/dt = sum(x).
f_(t, x, z, p, u) ==
  [ode  |-> [i \in 1..Len(x) |-> RAdd(RMul(dae_a, x[i]), p)],
   alg  |-> [k \in 1..Len(z) |-> RSub(RSub(z[k], u), t)],
   quad |-> <<RSum(x, 1, Len(x))>>]

\* g_: (t, x, z, p, u, rx, rz, rp) -> (rode, ralg, rquad, uquad), the
\* reverse-mode derivative of f_.
g_(t, x, z, p, u, rx, rz, rp) ==
  [rode  |-> [i \in 1..Len(rx) |-> RAdd(RMul(dae_a, rx[i]), rp)],
   ralg  |-> [k \in 1..Len(rz) |-> rz[k]],
   rquad |-> <<RSum(rx, 1, Len(rx))>>,
   uquad |-> <<RNeg(RSum(rz, 1, Len(rz)))>>]

\* ------------------------------------------------- forward step relation F_

\* Mutant of v_offset: n2 is added before n1.
RECURSIVE v_offset_swapped(_, _, _)
v_offset_swapped(deg, n1, n2) ==
  IF deg <= 0 THEN <<0>>
  ELSE LET o == v_offset_swapped(deg - 1, n1, n2)
           a == o[Len(o)] + n2
       IN  o \o <<a, a + n1>>

\* v_offset / rv_offset: 0, then alternately +n1 and +n2, deg times.
RECURSIVE v_offset(_, _, _)
v_offset(deg, n1, n2) ==
  IF deg <= 0 THEN <<0>>
  ELSE LET o == v_offset(deg - 1, n1, n2)
           a == o[Len(o)] + n1
       IN  o \o <<a, a + n2>>

\* Collocated states: x[d] and z[d] for d in 1..deg, taken from the pieces of v
\* in order.
CollocatedX(v, deg, n1, n2) ==
  Fix([d \in 1..deg |-> vertsplit(v, v_offset(deg, n1, n2))[2 * (d - 1) + 1]])
CollocatedZ(v, deg, n1, n2) ==
  Fix([d \in 1..deg |-> vertsplit(v, v_offset(deg, n1, n2))[2 * (d - 1) + 2]])

\* The loop over d = 1..deg that takes x[d] = *vv_it++ and z[d] = *vv_it++:
\* it is the number of pieces the iterator has passed.
RECURSIVE collocated_loop(_, _, _, _, _, _)
collocated_loop(vv, d, deg, it, x, z) ==
  IF d > deg THEN [x |-> x, z |-> z, it |-> it]
  ELSE collocated_loop(vv, d + 1, deg, it + 2,
                       Append(x, vv[it + 1]), Append(z, vv[it + 2]))

\* casadi_assert_dev(vv_it == vv.end()).
vv_it_at_end(vv, it) == it = Len(vv)

\* Collocation time points tt[d] = t0 + h * tau_root[d].
tt(t0, h, d) == RAdd(t0, RMul(h, tau_root[d]))

\* xp_j = C[0][j]*x0 + sum_{r=1..deg} C[r][j]*x[r].
RECURSIVE xp_loop(_, _, _, _)
xp_loop(j, x, r, acc) ==
  IF r > deg_ THEN acc
  ELSE xp_loop(j, x, r + 1, VAdd(acc, VScale(C[r][j], x[r])))
\* Mutant of xp: C is read as C[j][r] where the code reads C[r][j].
RECURSIVE xp_loop_transposed(_, _, _, _)
xp_loop_transposed(j, x, r, acc) ==
  IF r > deg_ THEN acc
  ELSE xp_loop_transposed(j, x, r + 1, VAdd(acc, VScale(C[j][r], x[r])))
xp_transposed(j, x0, x) == xp_loop_transposed(j, x, 1, VScale(C[j][0], x0))

xp(j, x0, x) == xp_loop(j, x, 1, VScale(C[0][j], x0))

\* Mutant of f_arg: the DAE is given the time of node 0.
f_arg_t0(j, t0, h, p, u, x, z) == <<tt(t0, h, 0), x[j], z[j], p, u>>

\* The arguments of the DAE at collocation point j: (tt[j], x[j], z[j], p, u).
f_arg(j, t0, h, p, u, x, z) == <<tt(t0, h, j), x[j], z[j], p, u>>

\* f_res = f_(f_arg), the one evaluation of the DAE at collocation point j.
f_res(j, t0, h, p, u, x, z) ==
  LET a == f_arg(j, t0, h, p, u, x, z) IN f_(a[1], a[2], a[3], a[4], a[5])

\* The evaluations of the DAE the loop over the collocation points makes, in
\* order: one for each j = 1..deg.
F_calls(t0, h, x0, p, u, v) ==
  LET x == CollocatedX(v, deg_, nx_, nz_)
      z == CollocatedZ(v, deg_, nx_, nz_)
  IN  Fix([j \in 1..deg_ |-> f_arg(j, t0, h, p, u, x, z)])

\* The two residual blocks of collocation point j: h*ode - xp_j, then alg.
F_eq(j, t0, h, x0, p, u, x, z) ==
  LET fr == f_res(j, t0, h, p, u, x, z)
  IN  <<VSub(VScale(h, fr.ode), xp(j, x0, x)), fr.alg>>

\* xf = D[0]*x0 + sum_{j=1..deg} D[j]*x[j].
RECURSIVE xf_loop(_, _, _)
xf_loop(x, j, acc) ==
  IF j > deg_ THEN acc ELSE xf_loop(x, j + 1, VAdd(acc, VScale(D[j], x[j])))
\* Mutant of F_xf: the sum starts from zero instead of D[0]*x0.
F_xf_nostart(x0, x) == xf_loop(x, 1, VScale(Zero, x0))

F_xf(x0, x) == xf_loop(x, 1, VScale(D[0], x0))

\* Mutant of qf_loop: the weight is B[j] instead of B[j]*h.
RECURSIVE qf_loop_noh(_, _, _, _, _, _, _, _)
qf_loop_noh(t0, h, p, u, x, z, j, acc) ==
  IF j > deg_ THEN acc
  ELSE qf_loop_noh(t0, h, p, u, x, z, j + 1,
         VAdd(acc, VScale(B[j], f_(tt(t0, h, j), x[j], z[j], p, u).quad)))

\* qf = sum_{j=1..deg} (B[j]*h)*quad_j, starting from zeros.
RECURSIVE qf_loop(_, _, _, _, _, _, _, _)
qf_loop(t0, h, p, u, x, z, j, acc) ==
  IF j > deg_ THEN acc
  ELSE qf_loop(t0, h, p, u, x, z, j + 1,
         VAdd(acc, VScale(RMul(B[j], h), f_res(j, t0, h, p, u, x, z).quad)))

\* The list eq after the forward loop: for j = 1..deg, the differential block
\* of collocation point j and then its algebraic block.
F_eqs(t0, h, x0, p, u, x, z) ==
  Fix([k \in 1..(2 * deg_) |->
     F_eq((k + 1) \div 2, t0, h, x0, p, u, x, z)[2 - (k % 2)]])

\* F_ = Function("fstep", {t0, h, x0, p, u, v}, {xf, vf, qf}).
F_(t0, h, x0, p, u, v) ==
  LET x == CollocatedX(v, deg_, nx_, nz_)
      z == CollocatedZ(v, deg_, nx_, nz_)
  IN  [xf |-> F_xf(x0, x),
       vf |-> vertcat(F_eqs(t0, h, x0, p, u, x, z)),
       qf |-> qf_loop(t0, h, p, u, x, z, 1, VZero(1))]

\* ------------------------------------------------ backward step relation G_

\* rxp_j = -D[j]*rx0 + sum_{r=1..deg} (B[r]*C[j][r])*rx[r].
RECURSIVE rxp_loop(_, _, _, _)
rxp_loop(j, rx, r, acc) ==
  IF r > deg_ THEN acc
  ELSE rxp_loop(j, rx, r + 1, VAdd(acc, VScale(RMul(B[r], C[j][r]), rx[r])))
\* Mutant of rxp: the weight is B[j] where the code has B[r].
RECURSIVE rxp_loop_weightj(_, _, _, _)
rxp_loop_weightj(j, rx, r, acc) ==
  IF r > deg_ THEN acc
  ELSE rxp_loop_weightj(j, rx, r + 1, VAdd(acc, VScale(RMul(B[j], C[j][r]), rx[r])))
rxp_weightj(j, rx0, rx) == rxp_loop_weightj(j, rx, 1, VScale(RNeg(D[j]), rx0))

rxp(j, rx0, rx) == rxp_loop(j, rx, 1, VScale(RNeg(D[j]), rx0))

\* The arguments of the backward DAE at collocation point j:
\* (tt[j], x[j], z[j], p, u, rx[j], rz[j], rp).
g_arg(j, t0, h, p, u, x, z, rx, rz, rp) ==
  <<tt(t0, h, j), x[j], z[j], p, u, rx[j], rz[j], rp>>

\* The backward DAE at collocation point j.
g_res(j, t0, h, p, u, x, z, rx, rz, rp) ==
  LET a == g_arg(j, t0, h, p, u, x, z, rx, rz, rp)
  IN  g_(a[1], a[2], a[3], a[4], a[5], a[6], a[7], a[8])

\* The evaluations of the backward DAE the loop over the collocation points
\* makes, in order: one for each j = 1..deg.
G_calls(t0, h, x0, p, u, v, rx0, rp, rv) ==
  LET x == CollocatedX(v, deg_, nx_, nz_)
      z == CollocatedZ(v, deg_, nx_, nz_)
      rx == CollocatedX(rv, deg_, nrx_, nrz_)
      rz == CollocatedZ(rv, deg_, nrx_, nrz_)
  IN  Fix([j \in 1..deg_ |-> g_arg(j, t0, h, p, u, x, z, rx, rz, rp)])

\* The two residual blocks of collocation point j: h*B[j]*rode - rxp_j, then ralg.
G_eq(j, t0, h, p, u, x, z, rx0, rp, rx, rz) ==
  LET res == g_res(j, t0, h, p, u, x, z, rx, rz, rp)
  IN  <<VSub(VScale(RMul(h, B[j]), res.rode), rxp(j, rx0, rx)), res.ralg>>

\* rxf = D[0]*rx0 + sum_{j=1..deg} (-B[j]*C[0][j])*rx[j].
RECURSIVE rxf_loop(_, _, _)
rxf_loop(rx, j, acc) ==
  IF j > deg_ THEN acc
  ELSE rxf_loop(rx, j + 1, VAdd(acc, VScale(RMul(RNeg(B[j]), C[0][j]), rx[j])))
\* Mutant of G_rxf: the end state uses C[j][0] where the code uses C[0][j].
RECURSIVE rxf_loop_transposed(_, _, _)
rxf_loop_transposed(rx, j, acc) ==
  IF j > deg_ THEN acc
  ELSE rxf_loop_transposed(rx, j + 1,
         VAdd(acc, VScale(RMul(RNeg(B[j]), C[j][0]), rx[j])))
G_rxf_transposed(rx0, rx) == rxf_loop_transposed(rx, 1, VScale(D[0], rx0))

\* Mutant of G_rxf: the terms of the nodes are added with the sign +.
RECURSIVE rxf_loop_plus(_, _, _)
rxf_loop_plus(rx, j, acc) ==
  IF j > deg_ THEN acc
  ELSE rxf_loop_plus(rx, j + 1, VAdd(acc, VScale(RMul(B[j], C[0][j]), rx[j])))
G_rxf_plus(rx0, rx) == rxf_loop_plus(rx, 1, VScale(D[0], rx0))

G_rxf(rx0, rx) == rxf_loop(rx, 1, VScale(D[0], rx0))

\* Mutant of rqf_loop: uquad is accumulated into rqf.
RECURSIVE rqf_loop_crossed(_, _, _, _, _, _, _, _, _, _, _)
rqf_loop_crossed(t0, h, p, u, x, z, rp, rx, rz, j, acc) ==
  IF j > deg_ THEN acc
  ELSE rqf_loop_crossed(t0, h, p, u, x, z, rp, rx, rz, j + 1,
         VAdd(acc, VScale(RMul(h, B[j]),
                          g_res(j, t0, h, p, u, x, z, rx, rz, rp).uquad)))

\* rqf = sum h*B[j]*rquad_j and uqf = sum h*B[j]*uquad_j, each from zeros.
RECURSIVE rqf_loop(_, _, _, _, _, _, _, _, _, _, _)
rqf_loop(t0, h, p, u, x, z, rp, rx, rz, j, acc) ==
  IF j > deg_ THEN acc
  ELSE rqf_loop(t0, h, p, u, x, z, rp, rx, rz, j + 1,
         VAdd(acc, VScale(RMul(h, B[j]),
                          g_res(j, t0, h, p, u, x, z, rx, rz, rp).rquad)))
RECURSIVE uqf_loop(_, _, _, _, _, _, _, _, _, _, _)
uqf_loop(t0, h, p, u, x, z, rp, rx, rz, j, acc) ==
  IF j > deg_ THEN acc
  ELSE uqf_loop(t0, h, p, u, x, z, rp, rx, rz, j + 1,
         VAdd(acc, VScale(RMul(h, B[j]),
                          g_res(j, t0, h, p, u, x, z, rx, rz, rp).uquad)))

\* G_ = Function("bstep", {t0, h, x0, p, u, v, rx0, rp, rv}, {rxf, rvf, rqf, uqf}).
\* Mutant of eq_clear: the list keeps the equations of the forward problem.
eq_keep(eq) == eq

\* eq.clear(): the list the backward loop appends to is empty.
eq_clear(eq) == <<>>

\* The blocks the backward loop appends to eq: for j = 1..deg, the differential
\* block of collocation point j and then its algebraic block.
G_eqs(t0, h, p, u, x, z, rx0, rp, rx, rz) ==
  Fix([k \in 1..(2 * deg_) |->
     G_eq((k + 1) \div 2, t0, h, p, u, x, z, rx0, rp, rx, rz)[2 - (k % 2)]])

\* Mutant of G_: x0 is added to the end state.
G_x0_leak(t0, h, x0, p, u, v, rx0, rp, rv) ==
  LET x  == CollocatedX(v, deg_, nx_, nz_)
      z  == CollocatedZ(v, deg_, nx_, nz_)
      rx == CollocatedX(rv, deg_, nrx_, nrz_)
      rz == CollocatedZ(rv, deg_, nrx_, nrz_)
  IN  [rxf |-> VAdd(G_rxf(rx0, rx), x0),
       rvf |-> vertcat(G_eqs(t0, h, p, u, x, z, rx0, rp, rx, rz)),
       rqf |-> rqf_loop(t0, h, p, u, x, z, rp, rx, rz, 1, VZero(1)),
       uqf |-> uqf_loop(t0, h, p, u, x, z, rp, rx, rz, 1, VZero(1))]

\* G_ = Function("bstep", {t0, h, x0, p, u, v, rx0, rp, rv},
\*               {rxf, rvf, rqf, uqf}).
G_(t0, h, x0, p, u, v, rx0, rp, rv) ==
  LET x  == CollocatedX(v, deg_, nx_, nz_)
      z  == CollocatedZ(v, deg_, nx_, nz_)
      rx == CollocatedX(rv, deg_, nrx_, nrz_)
      rz == CollocatedZ(rv, deg_, nrx_, nrz_)
  IN  [rxf |-> G_rxf(rx0, rx),
       rvf |-> vertcat(eq_clear(F_eqs(t0, h, x0, p, u, x, z))
                       \o G_eqs(t0, h, p, u, x, z, rx0, rp, rx, rz)),
       rqf |-> rqf_loop(t0, h, p, u, x, z, rp, rx, rz, 1, VZero(1)),
       uqf |-> uqf_loop(t0, h, p, u, x, z, rp, rx, rz, 1, VZero(1))]

\* ------------------------------------------- slots of the step relations
\* Positions of the inputs and outputs of "fstep" and "bstep" (enumerators of
\* the integrator base class, numbered from 0).

FSTEP_T0 == 0
FSTEP_H == 1
FSTEP_X0 == 2
FSTEP_P == 3
FSTEP_U == 4
FSTEP_V0 == 5
FSTEP_NUM_IN == 6
FSTEP_XF == 0
FSTEP_VF == 1
FSTEP_QF == 2
FSTEP_NUM_OUT == 3

BSTEP_T0 == 0
BSTEP_H == 1
BSTEP_X == 2
BSTEP_P == 3
BSTEP_U == 4
BSTEP_V == 5
BSTEP_RX0 == 6
BSTEP_RP == 7
BSTEP_RV0 == 8
BSTEP_NUM_IN == 9
BSTEP_RXF == 0
BSTEP_RVF == 1
BSTEP_RQF == 2
BSTEP_UQF == 3
BSTEP_NUM_OUT == 4

\* F_in: the vector of FSTEP_NUM_IN inputs, each assigned at its slot.
F_in(t0, h, x0, p, u, v) ==
  Fix([i \in 1..FSTEP_NUM_IN |->
     CASE i - 1 = FSTEP_T0 -> t0
       [] i - 1 = FSTEP_H -> h
       [] i - 1 = FSTEP_X0 -> x0
       [] i - 1 = FSTEP_P -> p
       [] i - 1 = FSTEP_U -> u
       [] i - 1 = FSTEP_V0 -> v])

\* Mutant of F_out: xf and qf are assigned at each other's slot.
F_out_swapped(xf, vf, qf) ==
  Fix([i \in 1..FSTEP_NUM_OUT |->
     CASE i - 1 = FSTEP_XF -> qf
       [] i - 1 = FSTEP_VF -> vf
       [] i - 1 = FSTEP_QF -> xf])

\* F_out: the vector of FSTEP_NUM_OUT outputs, each assigned at its slot.
F_out(xf, vf, qf) ==
  Fix([i \in 1..FSTEP_NUM_OUT |->
     CASE i - 1 = FSTEP_XF -> xf
       [] i - 1 = FSTEP_VF -> vf
       [] i - 1 = FSTEP_QF -> qf])

\* The function "fstep" called with a positional argument list.
Call_F(arg) ==
  LET a == F_in(arg[1], arg[2], arg[3], arg[4], arg[5], arg[6])
      r == F_(a[FSTEP_T0 + 1], a[FSTEP_H + 1], a[FSTEP_X0 + 1], a[FSTEP_P + 1],
              a[FSTEP_U + 1], a[FSTEP_V0 + 1])
  IN  F_out(r.xf, r.vf, r.qf)

\* G_in: the vector of BSTEP_NUM_IN inputs, each assigned at its slot.
G_in(t0, h, x0, p, u, v, rx0, rp, rv) ==
  Fix([i \in 1..BSTEP_NUM_IN |->
     CASE i - 1 = BSTEP_T0 -> t0
       [] i - 1 = BSTEP_H -> h
       [] i - 1 = BSTEP_X -> x0
       [] i - 1 = BSTEP_P -> p
       [] i - 1 = BSTEP_U -> u
       [] i - 1 = BSTEP_V -> v
       [] i - 1 = BSTEP_RX0 -> rx0
       [] i - 1 = BSTEP_RP -> rp
       [] i - 1 = BSTEP_RV0 -> rv])

\* G_out: the vector of BSTEP_NUM_OUT outputs, each assigned at its slot.
G_out(rxf, rvf, rqf, uqf) ==
  Fix([i \in 1..BSTEP_NUM_OUT |->
     CASE i - 1 = BSTEP_RXF -> rxf
       [] i - 1 = BSTEP_RVF -> rvf
       [] i - 1 = BSTEP_RQF -> rqf
       [] i - 1 = BSTEP_UQF -> uqf])

\* The function "bstep" called with a positional argument list.
Call_G(arg) ==
  LET a == G_in(arg[1], arg[2], arg[3], arg[4], arg[5], arg[6], arg[7], arg[8], arg[9])
      r == G_(a[BSTEP_T0 + 1], a[BSTEP_H + 1], a[BSTEP_X + 1], a[BSTEP_P + 1],
              a[BSTEP_U + 1], a[BSTEP_V + 1], a[BSTEP_RX0 + 1], a[BSTEP_RP + 1],
              a[BSTEP_RV0 + 1])
  IN  G_out(r.rxf, r.rvf, r.rqf, r.uqf)

\* ------------------------------------------------------------ the root-finder
\* The implicit integrator's root-finder drives the residual of a step
\* relation to zero in the unknown v (rv).  For the linear DAE the residual
\* is linear in the unknown and the root is obtained by Cramer's rule.

\* The matrix m without row 1 and column c (m is n by n, n >= 2).
Minor(m, n, c) ==
  Fix([i \in 1..(n - 1) |->
         Fix([k \in 1..(n - 1) |-> m[i + 1][IF k < c THEN k ELSE k + 1]])])

RECURSIVE DetLoop(_, _, _)
RECURSIVE Det(_, _)
Det(m, n) == IF n = 0 THEN One ELSE IF n = 1 THEN m[1][1] ELSE DetLoop(m, n, 1)
DetLoop(m, n, c) ==
  IF c > n THEN Zero
  ELSE LET t == RMul(m[1][c], Det(Minor(m, n, c), n - 1))
       IN  RAdd(IF c % 2 = 1 THEN t ELSE RNeg(t), DetLoop(m, n, c + 1))

\* The solution of m*y = b (m is n by n with Det # 0).
LinSolve(m, n, b) ==
  Fix([c \in 1..n |->
     RDiv(Det(Fix([i \in 1..n |->
                     Fix([k \in 1..n |-> IF k = c THEN b[i] ELSE m[i][k]])]), n),
          Det(m, n))])

\* Forward system of one state component: row j, column r (1..deg).
FwdMatrix(h) ==
  Fix([j \in 1..deg_ |-> Fix([r \in 1..deg_ |->
     RSub(IF j = r THEN RMul(h, dae_a) ELSE Zero, C[r][j])])])
FwdSolvable(h) == Det(FwdMatrix(h), deg_) # Zero

\* The root v of F_'s residual for given (t0, h, x0, p, u).
FwdRoot(t0, h, x0, p, u) ==
  LET xs == Fix([i \in 1..nx_ |->
               LinSolve(FwdMatrix(h), deg_,
                        Fix([j \in 1..deg_ |-> RSub(RMul(C[0][j], x0[i]), RMul(h, p))]))])
  IN  vertcat([k \in 1..(2 * deg_) |->
        IF k % 2 = 1 THEN [i \in 1..nx_ |-> xs[i][(k + 1) \div 2]]
        ELSE [i \in 1..nz_ |-> RAdd(u, tt(t0, h, k \div 2))]])

\* Backward system of one adjoint component.
BwdMatrix(h) ==
  Fix([j \in 1..deg_ |-> Fix([r \in 1..deg_ |->
     RSub(IF j = r THEN RMul(RMul(h, B[j]), dae_a) ELSE Zero, RMul(B[r], C[j][r]))])])
BwdSolvable(h) == Det(BwdMatrix(h), deg_) # Zero

\* The root rv of G_'s residual for given (h, rx0, rp).
BwdRoot(h, rx0, rp) ==
  LET rxs == Fix([i \in 1..nrx_ |->
                LinSolve(BwdMatrix(h), deg_,
                         Fix([j \in 1..deg_ |->
                            RSub(RNeg(RMul(D[j], rx0[i])), RMul(RMul(h, B[j]), rp))]))])
  IN  vertcat([k \in 1..(2 * deg_) |->
        IF k % 2 = 1 THEN [i \in 1..nrx_ |-> rxs[i][(k + 1) \div 2]]
        ELSE VZero(nrz_)])

\* ----------------------------------------------------------------- options
\* An option value (GenericType) is a record: i is its integer value, s its
\* string value.

IntOpt(n) == [i |-> n, s |-> ""]
StrOpt(str) == [i |-> 0, s |-> str]

\* Options of the base class ImplicitFixedStepIntegrator.
BaseOptions == {"number_of_finite_elements"}

\* Mutant of options_: the table lists one more name.
options_extra == BaseOptions \cup {"interpolation_order", "collocation_scheme", "tolerance"}

\* Collocation::options_: the base options and the two options of the plugin.
options_ == BaseOptions \cup {"interpolation_order", "collocation_scheme"}

\* Options::check: every name of the dictionary is a known option.
OptionsKnown(o) == DOMAIN o \subseteq options_

\* The values a caller may give to an option name.
OptValues(name) ==
  CASE name = "interpolation_order" -> {IntOpt(n) : n \in (-1)..MaxDeg}
    [] name = "collocation_scheme" -> {StrOpt(str) : str \in Schemes \cup {"gauss"}}
    [] OTHER -> {IntOpt(1)}

OptNames == options_ \cup {"tolerance"}

\* The option dictionaries a caller may pass (std::map: one value per name).
Dicts ==
  UNION { {o \in [K -> UNION {OptValues(n) : n \in K}] :
             \A n \in K : o[n] \in OptValues(n)} : K \in SUBSET OptNames }

\* The dictionaries that give both options of the plugin and nothing else.
RunDicts == {o \in Dicts : DOMAIN o = {"interpolation_order", "collocation_scheme"}}

\* ------------------------------------------------------------- construction

\* Mutant of init_deg: the loop never matches the option, deg_ keeps its default.
init_deg_ignored(o) == DefaultDeg

\* Mutant of init_deg: the branch of the other option assigns deg_.
init_deg_crossed(o) ==
  IF "collocation_scheme" \in DOMAIN o THEN o["collocation_scheme"].i ELSE DefaultDeg

\* The loop of init over the dictionary: the value deg_ ends with.
init_deg(o) ==
  IF "interpolation_order" \in DOMAIN o THEN o["interpolation_order"].i ELSE DefaultDeg

\* Mutant of init_scheme: the loop never matches the option.
init_scheme_ignored(o) == "radau"

\* The loop of init over the dictionary: the value collocation_scheme_ ends with.
init_scheme(o) ==
  IF "collocation_scheme" \in DOMAIN o THEN o["collocation_scheme"].s ELSE "radau"

\* An indeterminate buffer entry (allocated, never written).
Undef == <<0, 0>>

\* The memory object after init_mem: buffers allocated, nothing written.
FreshMem(deg) ==
  [x |-> <<>>, z |-> <<>>, p |-> Zero, u |-> Zero,
   v |-> [i \in 1..(deg * (nx_ + nz_)) |-> Undef],
   rx |-> <<>>, rz |-> <<>>, rp |-> Zero,
   rv |-> [i \in 1..(deg * (nrx_ + nrz_)) |-> Undef],
   fwd |-> "fresh", bwd |-> "fresh"]

\* Mutant of setupFG: G_ is built without the test of g_.
setupFG_unguarded(deg, scheme) ==
  LET c == Coefficients(deg, scheme)
  IN  /\ tau_root' = c.tau_root
      /\ C' = c.C
      /\ D' = c.D
      /\ B' = c.B
      /\ F_built' = TRUE
      /\ G_built' = TRUE

\* setupFG for a valid (deg, scheme): coefficients, F_ and, with g_, G_.
setupFG(deg, scheme) ==
  LET c == Coefficients(deg, scheme)
  IN  /\ tau_root' = c.tau_root
      /\ C' = c.C
      /\ D' = c.D
      /\ B' = c.B
      /\ F_built' = TRUE
      /\ G_built' = has_g

\* The exception raised inside setupFG by collocation_points, if any.
setupFG_error(deg, scheme) == collocation_points_error(deg, scheme)

\* Construction of the integrator from an option dictionary: the option
\* check, init (defaults, option loop, base class init) and setupFG.
Construct(o) ==
  /\ pc = "new"
  /\ opts' = o
  /\ UNCHANGED <<dae_a, has_g, t0_, h_, nx_, nz_, nrx_, nrz_, out, persist>>
  /\ IF ~OptionsKnown(o)
       THEN /\ pc' = "error"
            /\ err' = "UnknownOption"
            /\ UNCHANGED <<built, mem, other>>
       ELSE /\ deg_' = init_deg(o)
            /\ collocation_scheme_' = init_scheme(o)
            /\ IF setupFG_error(init_deg(o), init_scheme(o)) # "none"
                 THEN /\ pc' = "error"
                      /\ err' = setupFG_error(init_deg(o), init_scheme(o))
                      /\ UNCHANGED <<tau_root, C, D, B, F_built, G_built, mem, other>>
                 ELSE /\ pc' = "ready"
                      /\ err' = "none"
                      /\ setupFG(init_deg(o), init_scheme(o))
                      /\ mem' = FreshMem(init_deg(o))
                      /\ other' = FreshMem(init_deg(o))

\* ------------------------------------------------------------ reset / resetB

\* casadi_copy(src, n, dst + pos): n entries of src written at offset pos.
casadi_copy(src, n, dst, pos) ==
  Fix([i \in 1..Len(dst) |-> IF pos < i /\ i <= pos + n THEN src[i - pos] ELSE dst[i]])

\* The loop of reset / resetB: for each d, copy a (n1 entries), advance by n1,
\* copy b (n2 entries), advance by n2.
RECURSIVE guess_loop(_, _, _, _, _, _, _, _)
guess_loop(d, deg, buf, pos, a, n1, b, n2) ==
  IF d >= deg THEN buf
  ELSE guess_loop(d + 1, deg,
         casadi_copy(b, n2, casadi_copy(a, n1, buf, pos), pos + n1),
         pos + n1 + n2, a, n1, b, n2)

\* ImplicitFixedStepIntegrator::reset: the state and parameters of the run.
BaseReset(m, x, z, p) == [m EXCEPT !.x = x, !.z = z, !.p = p, !.fwd = "reset"]

\* ImplicitFixedStepIntegrator::resetB: the backward state of the run.
BaseResetB(m, rx, rz, rp) == [m EXCEPT !.rx = rx, !.rz = rz, !.rp = rp, !.bwd = "reset"]

\* Mutant of reset_v: the loop starts at d = 1, so the last block is never written.
reset_v_skip(m, x, z) == guess_loop(1, deg_, m.v, 0, x, nx_, z, nz_)

\* Mutant of resetB_rv: the second copy uses the count of the first (nrx for nrz).
resetB_rv_count(m, rx, rz) == guess_loop(0, deg_, m.rv, 0, rx, nrx_, rz, nrx_)

\* The initial guess reset writes into v.
reset_v(m, x, z) == guess_loop(0, deg_, m.v, 0, x, nx_, z, nz_)

\* The initial guess resetB writes into rv.
resetB_rv(m, rx, rz) == guess_loop(0, deg_, m.rv, 0, rx, nrx_, rz, nrz_)

\* The differential states given to reset / resetB: entries 1, 2, .. or 2, 3, ..
XVecs(n) == {Fix([i \in 1..n |-> R(i + k)]) : k \in {0, 1}}
\* The algebraic states given to reset / resetB: entries 3, 4, ..
ZVecs(n) == {Fix([i \in 1..n |-> R(i + 2)])}
PVals == {Zero, One}
UVals == {Zero, One}

reset(x, z, p) ==
  /\ pc = "ready"
  /\ mem' = [BaseReset(mem, x, z, p) EXCEPT !.v = reset_v(mem, x, z)]
  /\ UNCHANGED <<pc, err, config, built, other, out, persist>>

\* Mutant of resetB: the initial guess is written into v instead of rv.
resetB_into_v(rx, rz, rp) ==
  /\ pc = "ready"
  /\ G_built
  /\ mem' = [BaseResetB(mem, rx, rz, rp) EXCEPT !.v = resetB_rv(mem, rx, rz)]
  /\ UNCHANGED <<pc, err, config, built, other, out, persist>>

resetB(rx, rz, rp) ==
  /\ pc = "ready"
  /\ G_built
  /\ mem' = [BaseResetB(mem, rx, rz, rp) EXCEPT !.rv = resetB_rv(mem, rx, rz)]
  /\ UNCHANGED <<pc, err, config, built, other, out, persist>>

\* reset called with the memory object of the other run.
resetOther(x, z, p) ==
  /\ pc = "ready"
  /\ other' = [BaseReset(other, x, z, p) EXCEPT !.v = reset_v(other, x, z)]
  /\ UNCHANGED <<pc, err, config, built, mem, out, persist>>

\* resetB called with the memory object of the other run.
resetBOther(rx, rz, rp) ==
  /\ pc = "ready"
  /\ G_built
  /\ other' = [BaseResetB(other, rx, rz, rp) EXCEPT !.rv = resetB_rv(other, rx, rz)]
  /\ UNCHANGED <<pc, err, config, built, mem, out, persist>>

\* -------------------------------------------------------------- solver steps

\* One forward step: the root-finder overwrites v with the root of F_'s residual.
SolveF(u) ==
  /\ pc = "ready"
  /\ mem.fwd # "fresh"
  /\ deg_ <= MaxSolveDeg
  /\ FwdSolvable(h_)
  /\ mem' = [mem EXCEPT !.u = u, !.fwd = "solved",
                        !.v = FwdRoot(t0_, h_, mem.x, mem.p, u)]
  /\ UNCHANGED <<pc, err, config, built, other, out, persist>>

\* One backward step: the root-finder overwrites rv with the root of G_'s residual.
SolveB ==
  /\ pc = "ready"
  /\ G_built
  /\ mem.fwd # "fresh"
  /\ mem.bwd # "fresh"
  /\ deg_ <= MaxSolveDeg
  /\ BwdSolvable(h_)
  /\ mem' = [mem EXCEPT !.bwd = "solved", !.rv = BwdRoot(h_, mem.rx, mem.rp)]
  /\ UNCHANGED <<pc, err, config, built, other, out, persist>>

\* One forward step of the other run: the root-finder overwrites its v.
SolveFOther(u) ==
  /\ pc = "ready"
  /\ other.fwd # "fresh"
  /\ deg_ <= MaxSolveDeg
  /\ FwdSolvable(h_)
  /\ other' = [other EXCEPT !.u = u, !.fwd = "solved",
                            !.v = FwdRoot(t0_, h_, other.x, other.p, u)]
  /\ UNCHANGED <<pc, err, config, built, mem, out, persist>>

\* ------------------------------------------- evaluation of a step relation

\* The interior unknowns v (rv) a caller may pass: n entries 1, 4, 9, ..
\* shifted by 0 or 3, or n zeros.
VVecs(n) == {Fix([i \in 1..n |-> R(i * i + k)]) : k \in {0, 3}} \cup {VZero(n)}

\* algebraic_state_init: vertcat(x0, z0) repeated deg_ times.
algebraic_state_init(x0, z0) == repmat(vertcat(<<x0, z0>>), deg_)

\* Mutant of algebraic_state_output: the first nz_ rows of Z.
algebraic_state_output_first(Z) == SubSeq(Z, 1, nz_)

\* algebraic_state_output: Z(Slice(Z.size1() - nz_, Z.size1())), the rows
\* Z.size1() - nz_ .. Z.size1() - 1 counted from 0.
algebraic_state_output(Z) == SubSeq(Z, Len(Z) - nz_ + 1, Len(Z))

\* The base class asks for the initial value of the interior unknowns.
EvalStateInit(x0, z0) ==
  /\ pc = "ready"
  /\ out = <<>>
  /\ out' = [fn |-> "algebraic_state_init", arg |-> <<x0, z0>>,
             res |-> algebraic_state_init(x0, z0)]
  /\ UNCHANGED <<pc, err, config, built, mem, other, persist>>

\* The base class asks for the algebraic state at the end of the step.
EvalStateOutput(Z) ==
  /\ pc = "ready"
  /\ out = <<>>
  /\ out' = [fn |-> "algebraic_state_output", arg |-> <<Z>>,
             res |-> algebraic_state_output(Z)]
  /\ UNCHANGED <<pc, err, config, built, mem, other, persist>>

\* A caller evaluates "fstep" at (t0, h, x0, p, u, v), in this order; out
\* records one evaluation per instance.
EvalF(x0, p, u, v) ==
  /\ pc = "ready"
  /\ F_built
  /\ out = <<>>
  /\ out' = [fn |-> "fstep",
             arg |-> <<t0_, h_, x0, p, u, v>>,
             res |-> Call_F(<<t0_, h_, x0, p, u, v>>),
             calls |-> F_calls(t0_, h_, x0, p, u, v)]
  /\ UNCHANGED <<pc, err, config, built, mem, other, persist>>

\* A caller evaluates "bstep" at (t0, h, x0, p, u, v, rx0, rp, rv), in this order.
EvalG(x0, p, u, v, rx0, rp, rv) ==
  /\ pc = "ready"
  /\ G_built
  /\ out = <<>>
  /\ out' = [fn |-> "bstep",
             arg |-> <<t0_, h_, x0, p, u, v, rx0, rp, rv>>,
             res |-> Call_G(<<t0_, h_, x0, p, u, v, rx0, rp, rv>>),
             calls |-> G_calls(t0_, h_, x0, p, u, v, rx0, rp, rv)]
  /\ UNCHANGED <<pc, err, config, built, mem, other, persist>>

\* -------------------------------------------------------------- persistence
\* The persisted record is a sequence of items [key, val], written by pack in
\* order and read back by unpack in the same order.

\* The version tag serialize_body writes and the deserializing constructor
\* requires (collocation.cpp:358, 367).
CollocationVersion == 1
\* Largest version tag a record of another release carries.
MaxVersion == 2

\* A null Function.
NullFn == [name |-> "null"]

\* The DAE callables as persisted objects.
f_blob == [name |-> "f", a |-> dae_a]
g_blob == IF has_g THEN [name |-> "g", a |-> dae_a] ELSE NullFn

\* The step relations as persisted objects: the coefficients are part of them.
F_blob ==
  IF F_built
    THEN [name |-> "fstep", deg |-> deg_, tau_root |-> tau_root, C |-> C, D |-> D, B |-> B]
    ELSE NullFn
G_blob ==
  IF G_built
    THEN [name |-> "bstep", deg |-> deg_, tau_root |-> tau_root, C |-> C, D |-> D, B |-> B]
    ELSE NullFn

\* ImplicitFixedStepIntegrator::serialize_body: the step relations and the
\* time grid and dimensions of the base class.
BaseBody ==
  <<[key |-> "FixedStepIntegrator::F", val |-> F_blob],
    [key |-> "FixedStepIntegrator::G", val |-> G_blob],
    [key |-> "FixedStepIntegrator::grid",
     val |-> [t0 |-> t0_, h |-> h_, nx |-> nx_, nz |-> nz_, nrx |-> nrx_, nrz |-> nrz_]]>>

\* Number of items of the base-class body.
BaseLen == Len(BaseBody)

\* Mutant of serialize_body: the scheme is packed before the degree.
serialize_body_swapped ==
  BaseBody \o
  <<[key |-> "Collocation", val |-> CollocationVersion],
    [key |-> "Collocation::collocation_scheme", val |-> collocation_scheme_],
    [key |-> "Collocation::deg", val |-> deg_],
    [key |-> "Collocation::f", val |-> f_blob],
    [key |-> "Collocation::g", val |-> g_blob]>>

\* Mutant of serialize_body: f_ is packed a second time where g_ belongs.
serialize_body_f_for_g ==
  BaseBody \o
  <<[key |-> "Collocation", val |-> CollocationVersion],
    [key |-> "Collocation::deg", val |-> deg_],
    [key |-> "Collocation::collocation_scheme", val |-> collocation_scheme_],
    [key |-> "Collocation::f", val |-> f_blob],
    [key |-> "Collocation::f", val |-> f_blob]>>

\* Collocation::serialize_body: the base-class body, the version tag, then
\* deg_, collocation_scheme_, f_ and g_.
serialize_body ==
  BaseBody \o
  <<[key |-> "Collocation", val |-> CollocationVersion],
    [key |-> "Collocation::deg", val |-> deg_],
    [key |-> "Collocation::collocation_scheme", val |-> collocation_scheme_],
    [key |-> "Collocation::f", val |-> f_blob],
    [key |-> "Collocation::g", val |-> g_blob]>>

\* The sample inputs on which the behaviour of an instance is recorded.
BatteryF ==
  <<Zero, Rat(1, 2), Fix([i \in 1..nx_ |-> R(i)]), One, One,
    Fix([i \in 1..(deg_ * (nx_ + nz_)) |-> R(i * i)])>>
BatteryG ==
  BatteryF \o
  <<Fix([i \in 1..nrx_ |-> R(i + 1)]), One,
    Fix([i \in 1..(deg_ * (nrx_ + nrz_)) |-> R(i * i + 2)])>>

\* What the instance is and computes on the sample inputs.
Behaviour ==
  [deg |-> deg_, scheme |-> collocation_scheme_, has_g |-> has_g,
   G_built |-> G_built,
   F |-> Call_F(BatteryF),
   G |-> IF G_built THEN Call_G(BatteryG) ELSE <<>>]

\* save: the record of the instance is written.
serialize ==
  /\ pc = "ready"
  /\ stream = <<>>
  /\ stream' = serialize_body
  /\ orig' = Behaviour
  /\ UNCHANGED <<pc, err, config, built, mem, other, out, unpacked>>

\* The record at hand was written by another release: its Collocation
\* version tag is not the supported one.
OtherRelease(ver) ==
  /\ stream # <<>>
  /\ unpacked = 0
  /\ stream[BaseLen + 1].val = CollocationVersion
  /\ ver # CollocationVersion
  /\ stream' = [stream EXCEPT ![BaseLen + 1].val = ver]
  /\ UNCHANGED <<pc, err, config, built, mem, other, out, unpacked, orig>>

\* unpack: the value of the item at position pos of the record.
unpack(s, pos) == s[pos].val

\* Mutant of version_ok: every version tag is accepted.
version_any(s) == TRUE

\* s.version("Collocation", 1): the tag read is the supported version.
version_ok(s) == unpack(s, BaseLen + 1) = CollocationVersion

\* Mutant of unpack_deg: deg_ is read from the item of the version tag.
unpack_deg_early(s) == unpack(s, BaseLen + 1)

\* s.unpack("Collocation::deg", deg_): the item after the version tag.
unpack_deg(s) == unpack(s, BaseLen + 2)

\* The descriptors the deserializing constructor asks for after the base
\* class has read its body, in the order of its calls.
unpack_keys ==
  <<"Collocation", "Collocation::deg", "Collocation::collocation_scheme",
    "Collocation::f", "Collocation::g">>

\* The deserializing constructor: the base class reads its body, the version
\* tag is checked, then deg_, collocation_scheme_, f_ and g_ are read.  The
\* instance held afterwards is the one built from the record; a failed load
\* leaves no instance.
deserialize ==
  /\ pc = "ready"
  /\ stream # <<>>
  /\ unpacked = 0
  /\ opts' = <<>>
  /\ mem' = <<>>
  /\ other' = <<>>
  /\ UNCHANGED <<out, stream, orig>>
  /\ IF version_ok(stream)
       THEN /\ pc' = "loaded"
            /\ err' = "none"
            /\ unpacked' = BaseLen + 5
            /\ tau_root' = unpack(stream, 1).tau_root
            /\ C' = unpack(stream, 1).C
            /\ D' = unpack(stream, 1).D
            /\ B' = unpack(stream, 1).B
            /\ F_built' = (unpack(stream, 1).name # "null")
            /\ G_built' = (unpack(stream, 2).name # "null")
            /\ t0_' = unpack(stream, 3).t0
            /\ h_' = unpack(stream, 3).h
            /\ nx_' = unpack(stream, 3).nx
            /\ nz_' = unpack(stream, 3).nz
            /\ nrx_' = unpack(stream, 3).nrx
            /\ nrz_' = unpack(stream, 3).nrz
            /\ deg_' = unpack_deg(stream)
            /\ collocation_scheme_' = unpack(stream, BaseLen + 3)
            /\ dae_a' = unpack(stream, BaseLen + 4).a
            /\ has_g' = (unpack(stream, BaseLen + 5).name # "null")
       ELSE /\ pc' = "error"
            /\ err' = "SerializationVersionMismatch"
            /\ unpacked' = BaseLen + 1
            /\ deg_' = 0
            /\ collocation_scheme_' = ""
            /\ tau_root' = <<>>
            /\ C' = <<>>
            /\ D' = <<>>
            /\ B' = <<>>
            /\ F_built' = FALSE
            /\ G_built' = FALSE
            /\ UNCHANGED <<dae_a, has_g, t0_, h_, nx_, nz_, nrx_, nrz_>>

\* ------------------------------------------------------------ specification

AVals == {R(-1), R(2)}
HVals == {One, Rat(1, 2)}
T0Vals == {Zero}
Dims == 0..MaxDim

Init ==
  /\ pc = "new"
  /\ err = "none"
  /\ opts = <<>>
  /\ dae_a \in AVals
  /\ t0_ \in T0Vals
  /\ h_ \in HVals
  /\ nx_ \in Dims
  /\ nz_ \in Dims
  /\ has_g \in BOOLEAN
  /\ nrx_ = IF has_g THEN nx_ ELSE 0
  /\ nrz_ = IF has_g THEN nz_ ELSE 0
  /\ deg_ = 0
  /\ collocation_scheme_ = ""
  /\ tau_root = <<>>
  /\ C = <<>>
  /\ D = <<>>
  /\ B = <<>>
  /\ F_built = FALSE
  /\ G_built = FALSE
  /\ mem = <<>>
  /\ other = <<>>
  /\ out = <<>>
  /\ stream = <<>>
  /\ unpacked = 0
  /\ orig = <<>>

\* Construction alone, from every option dictionary.
NextConfig == \E o \in Dicts : Construct(o)

SpecConfig == Init /\ [][NextConfig]_vars

\* The life of an integrator: construction, resets and solver steps.
Next ==
  \/ \E o \in RunDicts : Construct(o)
  \/ \E x \in XVecs(nx_), z \in ZVecs(nz_), p \in PVals : reset(x, z, p)
  \/ \E rx \in XVecs(nrx_), rz \in ZVecs(nrz_), rp \in PVals :
       resetB(rx, rz, rp)
  \/ \E u \in UVals : SolveF(u)
  \/ SolveB

Spec == Init /\ [][Next]_vars

\* The differential states the first and the second run are reset with.
FirstX(n) == Fix([i \in 1..n |-> R(i)])
SecondX(n) == Fix([i \in 1..n |-> R(i + 1)])
\* The interior unknowns of the forward problem "bstep" is evaluated at.
FirstV(n) == Fix([i \in 1..n |-> R(i * i)])

\* Construction followed by evaluations of the step relations.
NextStep ==
  \/ \E o \in RunDicts : Construct(o)
  \/ \E x0 \in XVecs(nx_), p \in PVals, v \in VVecs(deg_ * (nx_ + nz_)) :
       EvalF(x0, p, One, v)
  \/ \E rx0 \in XVecs(nrx_), rp \in PVals, rv \in VVecs(deg_ * (nrx_ + nrz_)) :
       EvalG(FirstX(nx_), One, One, FirstV(deg_ * (nx_ + nz_)), rx0, rp, rv)
  \/ \E x0 \in XVecs(nx_), z0 \in ZVecs(nz_) : EvalStateInit(x0, z0)
  \/ \E Z \in VVecs(deg_ * (nx_ + nz_)) : EvalStateOutput(Z)

SpecStep == Init /\ [][NextStep]_vars

\* Construction, save, and load of the record (of this or another release).
NextPersist ==
  \/ \E o \in RunDicts : Construct(o)
  \/ serialize
  \/ \E ver \in 0..MaxVersion : OtherRelease(ver)
  \/ deserialize

SpecPersist == Init /\ [][NextPersist]_vars

\* Two integration runs of one instance, each with its own memory object.
NextRuns ==
  \/ \E o \in RunDicts : Construct(o)
  \/ \E z \in ZVecs(nz_) : reset(FirstX(nx_), z, Zero)
  \/ \E rz \in ZVecs(nrz_) : resetB(FirstX(nrx_), rz, Zero)
  \/ SolveF(One)
  \/ SolveB
  \/ \E z \in ZVecs(nz_) : resetOther(SecondX(nx_), z, One)
  \/ \E rz \in ZVecs(nrz_) : resetBOther(SecondX(nrx_), rz, One)
  \/ SolveFOther(Zero)

SpecRuns == Init /\ [][NextRuns]_vars

\* The coefficient loop and the splitting of the unknowns on their own, for
\* any node grid and any dimensions.

\* Nodes a grid is made of besides tau_root[0] = 0.
NodePool == {Rat(1, 4), Rat(1, 2), Rat(3, 4), One, Rat(5, 4)}
\* The grids of d + 1 pairwise distinct nodes, d in 1..MaxDeg.
Grids ==
  UNION {{[j \in 0..d |-> IF j = 0 THEN Zero ELSE s[j]] :
            s \in {t \in [1..d -> NodePool] :
                     \A a, b \in 1..d : a # b => t[a] # t[b]}} :
         d \in 1..MaxDeg}
\* Dimensions of the pieces of v and rv.
SplitDims == 0..(MaxDim + 1)

\* The loop over j of setupFG on the grid tau: the polynomial of every node
\* and the continuity coefficient of each scheme.
LagrangeBasis(tau) ==
  LET d == Cardinality(DOMAIN tau) - 1
      ps == Fix([k \in 1..(d + 1) |-> LagrangePoly(tau, d, k - 1)])
  IN  /\ pc = "new"
      /\ out = <<>>
      /\ out' = [fn |-> "basis", tau |-> tau, deg |-> d, p |-> ps,
                 D |-> [scheme \in Schemes |->
                          Fix([k \in 1..(d + 1) |-> CoefD(scheme, d, k - 1, ps[k])])]]
      /\ UNCHANGED <<pc, err, config, deg_, collocation_scheme_, tau_root, C, D, B,
                     F_built, G_built, mem, other, persist>>

\* The splitting of an unknown vector of deg*(n1+n2) rows into x[d] and z[d]
\* (or rx[d] and rz[d]), up to the assertion on the iterator.
SplitUnknowns(deg, n1, n2) ==
  LET v == Fix([i \in 1..(deg * (n1 + n2)) |-> i])
      offset == v_offset(deg, n1, n2)
      vv == vertsplit(v, offset)
      lp == collocated_loop(vv, 1, deg, 0, <<>>, <<>>)
  IN  /\ pc = "new"
      /\ out = <<>>
      /\ out' = [fn |-> "split", deg |-> deg, n1 |-> n1, n2 |-> n2, v |-> v,
                 offset |-> offset, vv |-> vv, x |-> lp.x, z |-> lp.z,
                 assert_ok |-> vv_it_at_end(vv, lp.it)]
      /\ UNCHANGED <<pc, err, config, deg_, collocation_scheme_, tau_root, C, D, B,
                     F_built, G_built, mem, other, persist>>

InitPure ==
  /\ Init
  /\ dae_a = R(2) /\ h_ = One /\ ~has_g /\ nx_ = 0 /\ nz_ = 0

NextPure ==
  \/ \E tau \in Grids : LagrangeBasis(tau)
  \/ \E deg \in 0..MaxDeg, n1 \in SplitDims, n2 \in SplitDims :
       SplitUnknowns(deg, n1, n2)

SpecPure == InitPure /\ [][NextPure]_vars

\* ------------------------------------------------------------------ claims

\* buf is deg consecutive blocks of size n1+n2, each equal to concat(a, b).
IsReplicated(buf, deg, a, n1, b, n2) ==
  /\ Len(buf) = deg * (n1 + n2)
  /\ \A k \in 0..(deg - 1) :
       /\ \A i \in 1..n1 : buf[k * (n1 + n2) + i] = a[i]
       /\ \A i \in 1..n2 : buf[k * (n1 + n2) + n1 + i] = b[i]

\* C1: every reset(x0, z0) step leaves v made of deg_ blocks of size nx+nz,
\* each block equal to concat(x0, z0).
C1_ResetReplicates ==
  [][\A x \in XVecs(nx_), z \in ZVecs(nz_), p \in PVals :
       reset(x, z, p) => IsReplicated(mem'.v, deg_, x, nx_, z, nz_)]_vars

\* A reset has acted on an instance of degree 3 with one differential and one
\* algebraic state: v holds three copies of (x0, z0).
C1_Witness ==
  /\ pc = "ready" /\ deg_ = 3 /\ nx_ = 1 /\ nz_ = 1
  /\ mem.fwd = "reset"
  /\ mem.v = <<R(2), R(3), R(2), R(3), R(2), R(3)>>

\* C2: every resetB(rx0, rz0) step leaves rv made of deg_ blocks of size
\* nrx+nrz, each block equal to concat(rx0, rz0).
C2_ResetBReplicates ==
  [][\A rx \in XVecs(nrx_), rz \in ZVecs(nrz_), rp \in PVals :
       resetB(rx, rz, rp) => IsReplicated(mem'.rv, deg_, rx, nrx_, rz, nrz_)]_vars

\* A resetB has acted on an instance of degree 2 with one backward differential
\* and one backward algebraic state.
C2_Witness ==
  /\ pc = "ready" /\ deg_ = 2 /\ nrx_ = 1 /\ nrz_ = 1
  /\ mem.bwd = "reset"
  /\ mem.rv = <<R(1), R(3), R(1), R(3)>>

\* The forward and backward step relations at the contents of the memory.
MemF == F_(t0_, h_, mem.x, mem.p, mem.u, mem.v)
MemG == G_(t0_, h_, mem.x, mem.p, mem.u, mem.v, mem.rx, mem.rp, mem.rv)

\* d(xf)/d(x0) of the forward step for a scalar state: xf is affine in x0 once
\* v is the root of the residual, so the derivative is the difference of xf
\* at x0 = 1 and at x0 = 0.
FwdSensitivity ==
  LET XfAt(x0) == F_(t0_, h_, <<x0>>, mem.p, mem.u,
                     FwdRoot(t0_, h_, <<x0>>, mem.p, mem.u)).xf[1]
  IN  RSub(XfAt(One), XfAt(Zero))

\* The claim's case of C3: the scalar DAE dx/dt = a*x (no algebraic state, no
\* parameter term, no quadrature seed) with both residuals at zero.
AdjointCase ==
  /\ pc = "ready" /\ G_built
  /\ nx_ = 1 /\ nz_ = 0
  /\ mem.fwd # "fresh" /\ mem.bwd # "fresh"
  /\ mem.p = Zero /\ mem.rp = Zero
  /\ MemF.vf = VZero(deg_ * (nx_ + nz_))
  /\ MemG.rvf = VZero(deg_ * (nrx_ + nrz_))
  /\ FwdSolvable(h_)

\* C3: for dx/dt = a*x with g_ the reverse-mode derivative, when v zeroes the
\* forward residual and rv the backward residual, rxf = rx0 * d(xf)/d(x0).
C3_AdjointExact ==
  AdjointCase => MemG.rxf = <<RMul(mem.rx[1], FwdSensitivity)>>

\* Both systems have been solved for degree 2, legendre, and rxf is not zero.
C3_Witness ==
  /\ AdjointCase
  /\ deg_ = 2 /\ collocation_scheme_ = "legendre"
  /\ mem.fwd = "solved" /\ mem.bwd = "solved"
  /\ MemG.rxf # <<Zero>>

\* C4 as stated: for degree 1, legendre, tau_root = [0, 1/2], D = [0, 1] and
\* B = [1/2, 1/2].
C4_Original ==
  (pc = "ready" /\ deg_ = 1 /\ collocation_scheme_ = "legendre") =>
    /\ tau_root = FromZero(<<Zero, Rat(1, 2)>>)
    /\ D = FromZero(<<Zero, One>>)
    /\ B = FromZero(<<Rat(1, 2), Rat(1, 2)>>)

\* C4 amended: for degree 1, legendre, tau_root = [0, 1/2], D = [-1, 2] and
\* B = [0, 1].
C4_Legendre1 ==
  (pc = "ready" /\ deg_ = 1 /\ collocation_scheme_ = "legendre") =>
    /\ tau_root = FromZero(<<Zero, Rat(1, 2)>>)
    /\ D = FromZero(<<R(-1), R(2)>>)
    /\ B = FromZero(<<Zero, One>>)

\* An instance of degree 1, legendre, has been constructed.
C4_Witness ==
  /\ pc = "ready" /\ deg_ = 1 /\ collocation_scheme_ = "legendre"
  /\ F_built
  /\ D[1] = R(2)

\* C5: with radau, D[j] is 1 for j = deg and 0 for j < deg, and the end state
\* xf of the forward step equals the state x_deg of the last collocation point.
C5_RadauContinuity ==
  (pc = "ready" /\ collocation_scheme_ = "radau") =>
    /\ \A j \in 0..deg_ : D[j] = IF j = deg_ THEN One ELSE Zero
    /\ mem.fwd # "fresh" =>
         MemF.xf = CollocatedX(mem.v, deg_, nx_, nz_)[deg_]

\* A forward step of a radau instance of degree 2 has been solved, and its end
\* state differs from the start state.
C5_Witness ==
  /\ pc = "ready" /\ collocation_scheme_ = "radau" /\ deg_ = 2
  /\ nx_ = 1 /\ mem.fwd = "solved"
  /\ MemF.xf = CollocatedX(mem.v, deg_, nx_, nz_)[deg_]
  /\ MemF.xf # mem.x

\* C6: for every degree and scheme the coefficients satisfy sum D[j] = 1 and
\* sum B[j] = 1 (j = 0..deg).
C6_CoefficientSums ==
  pc = "ready" => RSum(D, 0, deg_) = One /\ RSum(B, 0, deg_) = One

\* The coefficients of degree 3, legendre, have been computed (D has entries
\* other than 0 and 1).
C6_Witness ==
  /\ pc = "ready" /\ deg_ = 3 /\ collocation_scheme_ = "legendre"
  /\ D[0] = R(-1)
  /\ RSum(B, 0, deg_) = One

\* Nothing of setupFG's results exists: no coefficient and no step relation.
NothingBuilt ==
  /\ tau_root = <<>> /\ C = <<>> /\ D = <<>> /\ B = <<>>
  /\ ~F_built /\ ~G_built

\* The names of the dictionary are all options of the plugin or of its base.
KnownNames(o) ==
  DOMAIN o \subseteq BaseOptions \cup {"interpolation_order", "collocation_scheme"}

\* C7: a configured interpolation_order below 1 makes construction fail with
\* InvalidDegree, with no collocation point, coefficient or step relation.
C7_InvalidDegreeRejected ==
  (/\ pc # "new" /\ KnownNames(opts)
   /\ "interpolation_order" \in DOMAIN opts
   /\ opts["interpolation_order"].i < 1) =>
    pc = "error" /\ err = "InvalidDegree" /\ NothingBuilt

\* Construction with interpolation_order = 0 has ended in InvalidDegree.
C7_Witness ==
  /\ pc = "error" /\ err = "InvalidDegree"
  /\ "interpolation_order" \in DOMAIN opts
  /\ opts["interpolation_order"].i = 0
  /\ NothingBuilt

\* C8: a configured collocation_scheme other than radau and legendre makes
\* construction fail with no coefficient and no step relation; the error is
\* InvalidScheme whenever the degree is valid.
C8_InvalidSchemeRejected ==
  (/\ pc # "new" /\ KnownNames(opts)
   /\ "collocation_scheme" \in DOMAIN opts
   /\ opts["collocation_scheme"].s \notin {"radau", "legendre"}) =>
    /\ pc = "error" /\ NothingBuilt
    /\ deg_ >= 1 => err = "InvalidScheme"

\* Construction with scheme "gauss" and a valid degree has ended in InvalidScheme.
C8_Witness ==
  /\ pc = "error" /\ err = "InvalidScheme"
  /\ "collocation_scheme" \in DOMAIN opts
  /\ opts["collocation_scheme"].s = "gauss"
  /\ deg_ = 2
  /\ NothingBuilt

\* C9: after init, deg_ is 3 unless interpolation_order is given and
\* collocation_scheme_ is "radau" unless collocation_scheme is given; a given
\* option's value is the one in effect.
C9_InitDefaults ==
  (pc # "new" /\ KnownNames(opts)) =>
    /\ deg_ = IF "interpolation_order" \in DOMAIN opts
                THEN opts["interpolation_order"].i ELSE 3
    /\ collocation_scheme_ = IF "collocation_scheme" \in DOMAIN opts
                               THEN opts["collocation_scheme"].s ELSE "radau"

\* Only the scheme was given: the degree is the default 3, the scheme the given one.
C9_Witness ==
  /\ pc = "ready"
  /\ DOMAIN opts = {"collocation_scheme"}
  /\ collocation_scheme_ = "legendre" /\ deg_ = 3

\* C10: a dictionary holding a name that is no option of the plugin or of its
\* base makes construction fail with UnknownOption; nothing is built.
C10_UnknownOptionRejected ==
  (pc # "new" /\ ~KnownNames(opts)) =>
    pc = "error" /\ err = "UnknownOption" /\ NothingBuilt

\* Construction with the option "tolerance" has ended in UnknownOption.
C10_Witness ==
  /\ pc = "error" /\ err = "UnknownOption"
  /\ "tolerance" \in DOMAIN opts
  /\ "interpolation_order" \in DOMAIN opts

\* The output lengths of "fstep": nx, deg*(nx+nz) and one quadrature.
FstepShape(res) ==
  /\ Len(res) = 3
  /\ Len(res[1]) = nx_
  /\ Len(res[2]) = deg_ * (nx_ + nz_)
  /\ Len(res[3]) = 1

\* The output lengths of "bstep": nrx, deg*(nrx+nrz) and two quadratures.
BstepShape(res) ==
  /\ Len(res) = 4
  /\ Len(res[1]) = nrx_
  /\ Len(res[2]) = deg_ * (nrx_ + nrz_)
  /\ Len(res[3]) = 1
  /\ Len(res[4]) = 1

\* C11: "fstep" called with (t0, h, x0, p, u, v) returns (xf, residual, qf) and
\* "bstep" called with (t0, h, x0, p, u, v, rx0, rp, rv) returns
\* (rxf, residual, rqf, uqf), each list in exactly this order.
C11_StepRelationOrder ==
  /\ (out # <<>> /\ out.fn = "fstep") =>
       LET a == out.arg
           r == F_(a[1], a[2], a[3], a[4], a[5], a[6])
       IN  /\ Len(a) = 6
           /\ FstepShape(out.res)
           /\ out.res = <<r.xf, r.vf, r.qf>>
  /\ (out # <<>> /\ out.fn = "bstep") =>
       LET a == out.arg
           r == G_(a[1], a[2], a[3], a[4], a[5], a[6], a[7], a[8], a[9])
       IN  /\ Len(a) = 9
           /\ BstepShape(out.res)
           /\ out.res = <<r.rxf, r.rvf, r.rqf, r.uqf>>

\* "bstep" of a degree-2 instance with one state of each kind has been
\* evaluated: its four outputs differ pairwise.
C11_Witness ==
  /\ out # <<>> /\ out.fn = "bstep"
  /\ deg_ = 2 /\ nx_ = 1 /\ nz_ = 1
  /\ BstepShape(out.res)
  /\ out.res[1] # out.res[3] /\ out.res[3] # out.res[4] /\ out.res[1] # out.res[4]

\* C12: G_ is built exactly when a backward DAE is supplied; without one,
\* construction from valid options succeeds with F_ built, no G_ and no error,
\* and "bstep" is never evaluated.
C12_BackwardOnlyWithG ==
  /\ pc = "ready" => (F_built /\ (G_built <=> has_g))
  /\ (/\ pc # "new" /\ ~has_g /\ KnownNames(opts)
      /\ deg_ >= 1 /\ collocation_scheme_ \in {"radau", "legendre"}) =>
       (pc = "ready" /\ err = "none" /\ F_built /\ ~G_built)
  /\ (out # <<>> /\ out.fn = "bstep") => has_g

\* An instance without backward DAE has been constructed and its forward
\* step relation evaluated.
C12_Witness ==
  /\ pc = "ready" /\ err = "none" /\ ~has_g
  /\ F_built /\ ~G_built
  /\ out # <<>> /\ out.fn = "fstep"

\* C13: the instance loaded from the record of a saved instance has the
\* degree, the scheme name and, on the sample inputs, the outputs of "fstep"
\* and of "bstep" of the instance that saved it; it has a backward step
\* relation exactly when that instance had one.
C13_RoundTrip ==
  pc = "loaded" =>
    /\ deg_ = orig.deg
    /\ collocation_scheme_ = orig.scheme
    /\ has_g = orig.has_g
    /\ F_built
    /\ G_built = orig.G_built
    /\ Call_F(BatteryF) = orig.F
    /\ G_built => Call_G(BatteryG) = orig.G

\* A legendre instance of degree 3 with a backward DAE has been saved and
\* loaded again, and computes the recorded outputs.
C13_Witness ==
  /\ pc = "loaded" /\ unpacked = Len(stream)
  /\ deg_ = 3 /\ collocation_scheme_ = "legendre"
  /\ nx_ = 1 /\ nz_ = 1 /\ G_built
  /\ Call_G(BatteryG) = orig.G
  /\ orig.G[1] # <<Zero>>

\* C14: a load of a record whose Collocation version tag is not 1 fails with
\* SerializationVersionMismatch and stops at the tag: the degree, the scheme
\* and the items of f and g are not read, and no instance results.
C14_VersionGate ==
  (unpacked > 0 /\ stream[BaseLen + 1].val # 1) =>
    /\ pc = "error" /\ err = "SerializationVersionMismatch"
    /\ unpacked = BaseLen + 1
    /\ deg_ = 0 /\ collocation_scheme_ = ""
    /\ ~F_built /\ ~G_built

\* The record of a degree-2 legendre instance, retagged with version 2, has
\* been refused.
C14_Witness ==
  /\ pc = "error" /\ err = "SerializationVersionMismatch"
  /\ stream # <<>> /\ stream[BaseLen + 1].val = 2
  /\ stream[BaseLen + 2].val = 2 /\ stream[BaseLen + 3].val = "legendre"
  /\ unpacked = BaseLen + 1 /\ deg_ = 0

\* What an item of the record holds.
Holds(item) ==
  CASE item.key = "Collocation" -> "version tag"
    [] item.key = "Collocation::deg" -> "degree"
    [] item.key = "Collocation::collocation_scheme" -> "scheme name"
    [] item.key \in {"Collocation::f", "Collocation::g",
                     "FixedStepIntegrator::F", "FixedStepIntegrator::G"} -> item.val.name
    [] OTHER -> "base state"

\* C15 as stated: apart from the state of the base class, the record holds
\* the version tag, the degree, the scheme name, the forward step relation, a
\* has-backward flag (here: a null or non-null function) and, when set, the
\* backward step relation, and nothing else.
C15_Original ==
  stream # <<>> =>
    /\ \A i \in 1..Len(stream) :
         Holds(stream[i]) \in {"version tag", "degree", "scheme name", "fstep",
                               "bstep", "null", "base state"}
    /\ \E i \in 1..Len(stream) : Holds(stream[i]) = "fstep"

\* The record of the instance that saved it: the base-class body (which holds
\* the forward step relation and the backward one or a null function), then
\* the version tag 1, the degree, the scheme name, f and g or a null function.
SavedLayout ==
  /\ Len(stream) = BaseLen + 5
  /\ Holds(stream[1]) = "fstep"
  /\ Holds(stream[2]) = IF G_built THEN "bstep" ELSE "null"
  /\ [i \in 1..5 |-> Holds(stream[BaseLen + i])] =
       <<"version tag", "degree", "scheme name", "f", IF has_g THEN "g" ELSE "null">>
  /\ stream[BaseLen + 1].val = 1
  /\ stream[BaseLen + 2].val = deg_
  /\ stream[BaseLen + 3].val = collocation_scheme_

\* C15 amended: every save writes the base-class body followed by the version
\* tag 1, the degree, the scheme name, the DAE callable f and the backward DAE
\* callable g, the last written whether present or null; every successful
\* load reads the whole record and takes the coefficients from the persisted
\* forward step relation.
C15_RecordLayout ==
  [][/\ serialize => SavedLayout'
     /\ (deserialize /\ pc' = "loaded") =>
          /\ unpacked' = Len(stream)
          /\ <<tau_root', C', D', B'>> =
               <<stream[1].val.tau_root, stream[1].val.C,
                 stream[1].val.D, stream[1].val.B>>]_vars

\* An instance without backward DAE has been saved and loaded: the record
\* holds f and a null g, and the coefficients in effect are the persisted ones.
C15_Witness ==
  /\ pc = "loaded" /\ ~has_g /\ deg_ = 2
  /\ Len(stream) = BaseLen + 5
  /\ Holds(stream[BaseLen + 4]) = "f" /\ Holds(stream[BaseLen + 5]) = "null"
  /\ D = stream[1].val.D

\* The buffers reset does not write: those of the backward problem.
BackwardPart(m) == <<m.rx, m.rz, m.rp, m.rv, m.bwd>>
\* The buffers resetB does not write: those of the forward problem.
ForwardPart(m) == <<m.x, m.z, m.p, m.u, m.v, m.fwd>>

\* C16: no reset, resetB or solver step on either run's memory changes the
\* degree, the scheme name, the DAE callables, the coefficients or the step
\* relations; a step on one run's memory leaves the other run's memory as it
\* was; reset leaves rv (and the backward buffers) and resetB leaves v (and
\* the forward buffers) unchanged.
C16_ResetFrame ==
  [][pc = "ready" =>
       /\ UNCHANGED <<config, built>>
       /\ mem' # mem => other' = other
       /\ other' # other => mem' = mem
       /\ \A x \in XVecs(nx_), z \in ZVecs(nz_), p \in PVals :
            /\ reset(x, z, p) => BackwardPart(mem') = BackwardPart(mem)
            /\ resetOther(x, z, p) => BackwardPart(other') = BackwardPart(other)
       /\ \A rx \in XVecs(nrx_), rz \in ZVecs(nrz_), rp \in PVals :
            /\ resetB(rx, rz, rp) => ForwardPart(mem') = ForwardPart(mem)
            /\ resetBOther(rx, rz, rp) => ForwardPart(other') = ForwardPart(other)]_vars

\* Both runs of a degree-2 instance hold different guesses: the first run was
\* solved forward and reset backward, the second was reset with another state.
C16_Witness ==
  /\ pc = "ready" /\ deg_ = 2 /\ nx_ = 1 /\ nz_ = 1 /\ G_built
  /\ mem.fwd = "solved" /\ mem.bwd = "reset"
  /\ other.fwd = "reset" /\ other.bwd = "reset"
  /\ mem.v # other.v
  /\ mem.rv # other.rv

\* The state of node r in the arguments of a step relation: the start state
\* for r = 0, else the first n1 rows of block r of the stacked unknowns.
NodeX(x0, v, r, n1, n2) ==
  IF r = 0 THEN x0 ELSE SubSeq(v, (r - 1) * (n1 + n2) + 1, (r - 1) * (n1 + n2) + n1)
\* The algebraic state of node j: the last n2 rows of block j.
NodeZ(v, j, n1, n2) == SubSeq(v, (j - 1) * (n1 + n2) + n1 + 1, j * (n1 + n2))

\* L_j'(tau_root[r]) for j, r in 0..d, at [j + 1][r + 1]: the derivative of the
\* basis polynomial of node j at node r.
LagrangeDerivs ==
  Fix([k \in 1..(deg_ + 1) |->
     LET dp == PolyDerivative(LagrangePoly(tau_root, deg_, k - 1))
     IN  Fix([m \in 1..(deg_ + 1) |-> PolyEval(dp, tau_root[m - 1])])])

\* Block j (of size n) of a stacked residual.
Block(res, j, n) == SubSeq(res, (j - 1) * n + 1, j * n)

\* C17: the residual returned by "fstep" is, for j = 1..d in increasing order,
\* the block h*ode_j - sum_{r=0..d} L_r'(tau_root[j])*x_r (x_0 = x0) followed
\* by alg_j.
C17_ForwardResidual ==
  (out # <<>> /\ out.fn = "fstep") =>
    LET a == out.arg
        n == nx_ + nz_
        X(r) == NodeX(a[3], a[6], r, nx_, nz_)
        dae(j) == f_(RAdd(a[1], RMul(a[2], tau_root[j])), X(j),
                     NodeZ(a[6], j, nx_, nz_), a[4], a[5])
        LD == LagrangeDerivs
    IN  /\ Len(out.res[2]) = deg_ * n
        /\ \A j \in 1..deg_ :
             Block(out.res[2], j, n) =
               Fix([i \in 1..nx_ |->
                  RSub(RMul(a[2], dae(j).ode[i]),
                       RSum([r \in 0..deg_ |-> RMul(LD[r + 1][j + 1], X(r)[i])],
                            0, deg_))])
               \o Fix(dae(j).alg)

\* "fstep" of a degree-3 legendre instance with one state of each kind has
\* been evaluated at a v that is no root: the residual is not zero.
C17_Witness ==
  /\ out # <<>> /\ out.fn = "fstep"
  /\ deg_ = 3 /\ collocation_scheme_ = "legendre" /\ nx_ = 1 /\ nz_ = 1
  /\ Len(out.res[2]) = 6
  /\ \A k \in 1..6 : out.res[2][k] # Zero

\* C18: the end state returned by "fstep" is D[0]*x0 + sum_{j=1..d} D[j]*x_j
\* and nothing else.
C18_ForwardEndState ==
  (out # <<>> /\ out.fn = "fstep") =>
    LET a == out.arg
        X(r) == NodeX(a[3], a[6], r, nx_, nz_)
    IN  out.res[1] =
          Fix([i \in 1..nx_ |-> RSum([j \in 0..deg_ |-> RMul(D[j], X(j)[i])], 0, deg_)])

\* "fstep" of a degree-2 legendre instance has been evaluated: D[0] is not
\* zero and the end state differs from the last collocated state.
C18_Witness ==
  /\ out # <<>> /\ out.fn = "fstep"
  /\ deg_ = 2 /\ collocation_scheme_ = "legendre" /\ nx_ = 1
  /\ D[0] # Zero
  /\ out.res[1] # NodeX(out.arg[3], out.arg[6], 2, nx_, nz_)
  /\ out.res[1] # <<Zero>>

\* C19: the quadrature returned by "fstep" is sum_{j=1..d} (B[j]*h)*quad_j,
\* without any term of node 0, and is zero when quad_j is zero at every
\* interior node.
C19_ForwardQuadrature ==
  (out # <<>> /\ out.fn = "fstep") =>
    LET a == out.arg
        quad(j) == f_(RAdd(a[1], RMul(a[2], tau_root[j])),
                      NodeX(a[3], a[6], j, nx_, nz_),
                      NodeZ(a[6], j, nx_, nz_), a[4], a[5]).quad[1]
    IN  /\ out.res[3] =
             <<RSum([j \in 1..deg_ |-> RMul(RMul(B[j], a[2]), quad(j))], 1, deg_)>>
        /\ (\A j \in 1..deg_ : quad(j) = Zero) => out.res[3] = <<Zero>>

\* "fstep" has been evaluated with step 1/2 on an instance whose B[0] is not
\* zero, at a start state that is not zero, and the quadrature is not zero.
C19_Witness ==
  /\ out # <<>> /\ out.fn = "fstep"
  /\ deg_ = 2 /\ nx_ = 1 /\ out.arg[2] = Rat(1, 2)
  /\ B[0] # Zero
  /\ out.res[3] # <<Zero>>

\* C20: the residual returned by "bstep" is, for j = 1..d, the block
\* h*B[j]*rode_j - rxp_j followed by ralg_j, where
\* rxp_j = -D[j]*rx0 + sum_{r=1..d} (B[r]*L_j'(tau_root[r]))*rx_r.
C20_BackwardResidual ==
  (out # <<>> /\ out.fn = "bstep") =>
    LET a == out.arg
        n == nrx_ + nrz_
        RX(r) == NodeX(a[7], a[9], r, nrx_, nrz_)
        bdae(j) == g_(RAdd(a[1], RMul(a[2], tau_root[j])),
                      NodeX(a[3], a[6], j, nx_, nz_), NodeZ(a[6], j, nx_, nz_),
                      a[4], a[5], RX(j), NodeZ(a[9], j, nrx_, nrz_), a[8])
        LD == LagrangeDerivs
        rxp_j(j, i) ==
          RAdd(RNeg(RMul(D[j], a[7][i])),
               RSum([r \in 1..deg_ |->
                       RMul(RMul(B[r], LD[j + 1][r + 1]), RX(r)[i])], 1, deg_))
    IN  /\ Len(out.res[2]) = deg_ * n
        /\ \A j \in 1..deg_ :
             Block(out.res[2], j, n) =
               Fix([i \in 1..nrx_ |->
                  RSub(RMul(RMul(a[2], B[j]), bdae(j).rode[i]), rxp_j(j, i))])
               \o Fix(bdae(j).ralg)

\* "bstep" of a degree-3 legendre instance with one state of each kind has
\* been evaluated: the backward residual is not zero.
C20_Witness ==
  /\ out # <<>> /\ out.fn = "bstep"
  /\ deg_ = 3 /\ collocation_scheme_ = "legendre" /\ nrx_ = 1 /\ nrz_ = 1
  /\ Len(out.res[2]) = 6
  /\ \A k \in 1..6 : out.res[2][k] # Zero

\* C21: the end state returned by "bstep" is
\* D[0]*rx0 - sum_{j=1..d} B[j]*L_0'(tau_root[j])*rx_j.
C21_BackwardEndState ==
  (out # <<>> /\ out.fn = "bstep") =>
    LET a == out.arg
        RX(r) == NodeX(a[7], a[9], r, nrx_, nrz_)
        LD == LagrangeDerivs
    IN  out.res[1] =
          Fix([i \in 1..nrx_ |->
             RSub(RMul(D[0], a[7][i]),
                  RSum([j \in 1..deg_ |-> RMul(RMul(B[j], LD[1][j + 1]), RX(j)[i])],
                       1, deg_))])

\* "bstep" of a degree-3 legendre instance has been evaluated at an rv that is
\* not zero: D[0] is not zero and rxf is neither zero nor D[0]*rx0.
C21_Witness ==
  /\ out # <<>> /\ out.fn = "bstep"
  /\ deg_ = 3 /\ collocation_scheme_ = "legendre" /\ nrx_ = 1
  /\ D[0] # Zero
  /\ out.res[1] # <<Zero>>
  /\ out.res[1] # <<RMul(D[0], out.arg[7][1])>>

\* C22: "bstep" returns rqf = sum_{j=1..d} h*B[j]*rquad_j and
\* uqf = sum_{j=1..d} h*B[j]*uquad_j, each from its own output of the
\* backward DAE only.
C22_BackwardQuadratures ==
  (out # <<>> /\ out.fn = "bstep") =>
    LET a == out.arg
        bdae(j) == g_(RAdd(a[1], RMul(a[2], tau_root[j])),
                      NodeX(a[3], a[6], j, nx_, nz_), NodeZ(a[6], j, nx_, nz_),
                      a[4], a[5], NodeX(a[7], a[9], j, nrx_, nrz_),
                      NodeZ(a[9], j, nrx_, nrz_), a[8])
    IN  /\ out.res[3] =
             <<RSum([j \in 1..deg_ |-> RMul(RMul(a[2], B[j]), bdae(j).rquad[1])],
                    1, deg_)>>
        /\ out.res[4] =
             <<RSum([j \in 1..deg_ |-> RMul(RMul(a[2], B[j]), bdae(j).uquad[1])],
                    1, deg_)>>

\* "bstep" has been evaluated with step 1/2 where rquad and uquad differ: rqf
\* and uqf are not zero and not equal.
C22_Witness ==
  /\ out # <<>> /\ out.fn = "bstep"
  /\ deg_ = 2 /\ nrx_ = 1 /\ nrz_ = 1 /\ out.arg[2] = Rat(1, 2)
  /\ out.res[3] # <<Zero>> /\ out.res[4] # <<Zero>>
  /\ out.res[3] # out.res[4]

\* C23: an evaluation of "fstep" evaluates the DAE exactly once for each
\* interior node j = 1..d, at (t0 + h*tau_root[j], x_j, z_j, p, u), never at the
\* time of node 0, and v has no slot for node 0; an evaluation of "bstep"
\* evaluates the backward DAE once for each j at the same time and the same
\* (x_j, z_j), with (rx_j, rz_j) and the shared rp.
C23_OneEvaluationPerNode ==
  /\ (out # <<>> /\ out.fn = "fstep") =>
       LET a == out.arg
       IN  /\ Len(out.calls) = deg_
           /\ Len(a[6]) = deg_ * (nx_ + nz_)
           /\ \A j \in 1..deg_ :
                /\ out.calls[j] =
                     <<RAdd(a[1], RMul(a[2], tau_root[j])),
                       NodeX(a[3], a[6], j, nx_, nz_), NodeZ(a[6], j, nx_, nz_),
                       a[4], a[5]>>
                /\ out.calls[j][1] # RAdd(a[1], RMul(a[2], tau_root[0]))
  /\ (out # <<>> /\ out.fn = "bstep") =>
       LET a == out.arg
       IN  /\ Len(out.calls) = deg_
           /\ Len(a[9]) = deg_ * (nrx_ + nrz_)
           /\ \A j \in 1..deg_ :
                out.calls[j] =
                  <<RAdd(a[1], RMul(a[2], tau_root[j])),
                    NodeX(a[3], a[6], j, nx_, nz_), NodeZ(a[6], j, nx_, nz_),
                    a[4], a[5],
                    NodeX(a[7], a[9], j, nrx_, nrz_), NodeZ(a[9], j, nrx_, nrz_),
                    a[8]>>

\* "fstep" of a degree-3 instance with one differential and one algebraic state
\* has been evaluated: three evaluations of the DAE at three different times
\* and three different node states.
C23_Witness ==
  /\ out # <<>> /\ out.fn = "fstep"
  /\ deg_ = 3 /\ nx_ = 1 /\ nz_ = 1
  /\ Len(out.calls) = 3
  /\ Cardinality({out.calls[j][1] : j \in 1..3}) = 3
  /\ Cardinality({out.calls[j][2] : j \in 1..3}) = 3
  /\ Cardinality({out.calls[j][3] : j \in 1..3}) = 3

\* Row k of a stacked vector with blocks of n1 + n2 rows is an algebraic row
\* when it lies in the last n2 rows of its block.
IsAlgRow(k, n1, n2) == ((k - 1) % (n1 + n2)) >= n1
\* The node whose block holds row k.
NodeOfRow(k, n1, n2) == ((k - 1) \div (n1 + n2)) + 1

\* C26: the residual of "fstep" has as many rows as v, d*(nx+nz), and the
\* residual of "bstep" as many as rv, d*(nrx+nrz), so it holds no forward
\* equation; the algebraic rows of each residual are at the positions of the
\* algebraic unknowns of v resp. rv, node by node.
C26_ResidualSquare ==
  /\ (out # <<>> /\ out.fn = "fstep") =>
       LET a == out.arg
           v == a[6]
       IN  /\ Len(v) = deg_ * (nx_ + nz_)
           /\ Len(out.res[2]) = Len(v)
           /\ \A k \in 1..Len(v) :
                IsAlgRow(k, nx_, nz_) =>
                  out.res[2][k] =
                    RSub(RSub(v[k], a[5]),
                         RAdd(a[1], RMul(a[2], tau_root[NodeOfRow(k, nx_, nz_)])))
  /\ (out # <<>> /\ out.fn = "bstep") =>
       LET a == out.arg
           rv == a[9]
       IN  /\ Len(rv) = deg_ * (nrx_ + nrz_)
           /\ Len(out.res[2]) = Len(rv)
           /\ \A k \in 1..Len(rv) :
                IsAlgRow(k, nrx_, nrz_) => out.res[2][k] = rv[k]

\* "bstep" of a degree-2 instance with one state of each kind has been
\* evaluated: the forward problem has four equations, and the backward residual
\* has the four rows of rv, two of them algebraic.
C26_Witness ==
  /\ out # <<>> /\ out.fn = "bstep"
  /\ deg_ = 2 /\ nx_ = 1 /\ nz_ = 1 /\ nrx_ = 1 /\ nrz_ = 1
  /\ Len(out.arg[6]) = 4
  /\ Len(out.res[2]) = 4
  /\ Cardinality({k \in 1..4 : IsAlgRow(k, nrx_, nrz_)}) = 2
  /\ out.res[2][2] # Zero

\* Another value for input slot i of "bstep", of the same size as a[i].
OtherInput(a, i) ==
  IF i \in {1, 2, 4, 5, 8} THEN RAdd(a[i], One)
  ELSE Fix([k \in 1..Len(a[i]) |-> RAdd(a[i][k], R(k))])

\* The inputs a of "bstep" with the slots in S replaced by other values.
OtherInputs(a, S) ==
  Fix([i \in 1..Len(a) |-> IF i \in S THEN OtherInput(a, i) ELSE a[i]])

\* C27: an evaluation of "bstep" with another x0 returns the same rxf,
\* residual, rqf and uqf; and with another t0, h, p, u and rp, or with another
\* v, it returns the same rxf.
C27_BackwardIgnoresX0 ==
  (out # <<>> /\ out.fn = "bstep") =>
    LET a == out.arg
    IN  /\ Call_G(OtherInputs(a, {3})) = out.res
        /\ \A S \in {{1, 2, 4, 5, 8}, {6}} :
             Call_G(OtherInputs(a, S))[1] = out.res[1]

\* "bstep" has been evaluated on an instance with a differential state and
\* an algebraic state: x0 and v are not empty, the other x0 differs from x0,
\* and rxf is not zero.
C27_Witness ==
  /\ out # <<>> /\ out.fn = "bstep"
  /\ deg_ = 2 /\ nx_ = 1 /\ nz_ = 1
  /\ Len(out.arg[3]) = 1
  /\ OtherInput(out.arg, 3) # out.arg[3]
  /\ OtherInput(out.arg, 6) # out.arg[6]
  /\ out.res[1] # <<Zero>>
  /\ out.res[2] # VZero(4)

\* C30: algebraic_state_output(Z) is the last nz rows of Z, the algebraic
\* state z_d of the last interior node under the layout of v (empty when
\* nz = 0); algebraic_state_init(x0, z0) is concat(x0, z0) repeated d times,
\* which is what reset writes into v.
C30_AlgebraicState ==
  /\ (out # <<>> /\ out.fn = "algebraic_state_output") =>
       LET Z == out.arg[1]
       IN  /\ Len(out.res) = nz_
           /\ \A k \in 1..nz_ : out.res[k] = Z[Len(Z) - nz_ + k]
           /\ out.res = CollocatedZ(Z, deg_, nx_, nz_)[deg_]
           /\ out.res = NodeZ(Z, deg_, nx_, nz_)
  /\ (out # <<>> /\ out.fn = "algebraic_state_init") =>
       LET x0 == out.arg[1]
           z0 == out.arg[2]
       IN  /\ IsReplicated(out.res, deg_, x0, nx_, z0, nz_)
           /\ out.res = reset_v(FreshMem(deg_), x0, z0)

\* algebraic_state_output has been applied to a v of a degree-3 instance with
\* one state of each kind whose six rows all differ: the result is row 6.
C30_Witness ==
  /\ out # <<>> /\ out.fn = "algebraic_state_output"
  /\ deg_ = 3 /\ nx_ = 1 /\ nz_ = 1
  /\ Cardinality({out.arg[1][k] : k \in 1..6}) = 6
  /\ out.res = <<out.arg[1][6]>>

\* The descriptors of a whole load in the order of the reads: those of the
\* base class, then those of the deserializing constructor.
ReadOrder == [k \in 1..BaseLen |-> BaseBody[k].key] \o unpack_keys
\* The value of the item of the record written under a descriptor.
WrittenAs(key) ==
  stream[CHOOSE i \in 1..Len(stream) : stream[i].key = key].val

\* C28: the items of a saved record are, in order, the ones a load asks for:
\* the base-class body, then the version tag, deg, collocation_scheme, f and g;
\* a load never reads past the record, a successful load reads all of it, and
\* each field it sets has the value written under the field's descriptor.
C28_ReadOrderIsWriteOrder ==
  /\ stream # <<>> =>
       /\ [k \in 1..Len(stream) |-> stream[k].key] = ReadOrder
       /\ unpacked <= Len(stream)
  /\ pc = "loaded" =>
       /\ unpacked = Len(stream)
       /\ deg_ = WrittenAs("Collocation::deg")
       /\ collocation_scheme_ = WrittenAs("Collocation::collocation_scheme")
       /\ dae_a = WrittenAs("Collocation::f").a
       /\ has_g = (WrittenAs("Collocation::g").name # "null")

\* The record of a degree-3 radau instance with a backward DAE has been loaded:
\* eight items were written and eight read, the degree as the fifth.
C28_Witness ==
  /\ pc = "loaded" /\ has_g
  /\ Len(stream) = 8 /\ unpacked = 8
  /\ stream[5].key = "Collocation::deg" /\ stream[5].val = 3 /\ deg_ = 3
  /\ collocation_scheme_ = "radau"

\* C24: on every grid of d+1 pairwise distinct nodes the polynomial the loop
\* builds for index j has degree d, takes the value 1 at tau_root[j] and the
\* value 0 at every other node.
C24_LagrangeBasis ==
  (out # <<>> /\ out.fn = "basis") =>
    \A j \in 0..out.deg :
      LET L == out.p[j + 1]
      IN  /\ Len(L) = out.deg + 1
          /\ L[out.deg + 1] # Zero
          /\ \A r \in 0..out.deg :
               PolyEval(L, out.tau[r]) = IF r = j THEN One ELSE Zero

\* The basis of a grid of four nodes that is not increasing and does not
\* hold the node 1 has been built.
C24_Witness ==
  /\ out # <<>> /\ out.fn = "basis"
  /\ out.deg = 3
  /\ out.tau[1] = Rat(5, 4) /\ out.tau[2] = Rat(1, 4) /\ out.tau[3] = Rat(3, 4)
  /\ Len(out.p) = 4
  /\ PolyEval(out.p[2], Rat(5, 4)) = One

\* C25: on a grid of pairwise distinct nodes whose last node is 1, the
\* indicator the radau branch stores (1 for j = d, 0 otherwise) is the value
\* L_j(1) the legendre branch computes, for every j in 0..d; on a grid
\* (d >= 1) whose last node is not 1 the two differ for some j.
C25_RadauShortcut ==
  (out # <<>> /\ out.fn = "basis") =>
    LET d == out.deg
    IN  /\ \A j \in 0..d :
             /\ out.D["radau"][j + 1] = IF j = d THEN One ELSE Zero
             /\ out.D["legendre"][j + 1] = PolyEval(out.p[j + 1], One)
        /\ out.tau[d] = One => out.D["radau"] = out.D["legendre"]
        /\ out.tau[d] # One => out.D["radau"] # out.D["legendre"]

\* The coefficients of a three-node grid ending in 1 that is not a radau grid
\* have been computed: L_1(1) = 0 and L_2(1) = 1.
C25_Witness ==
  /\ out # <<>> /\ out.fn = "basis"
  /\ out.deg = 2 /\ out.tau[1] = Rat(1, 4) /\ out.tau[2] = One
  /\ out.D["legendre"] = <<Zero, Zero, One>>
  /\ out.D["radau"] = <<Zero, Zero, One>>

\* C29: for every d >= 0 and all dimensions n1, n2 >= 0 the offset list has
\* 2d+1 non-decreasing entries from 0 to d*(n1+n2), the split has 2d pieces,
\* the assertion on the iterator holds, piece 2(j-1) has n1 rows and is x_j,
\* piece 2(j-1)+1 has n2 rows and is z_j, and the pieces taken in order are v.
C29_SplitNeverFails ==
  (out # <<>> /\ out.fn = "split") =>
    LET d == out.deg
        o == out.offset
    IN  /\ Len(o) = 2 * d + 1
        /\ o[1] = 0 /\ o[2 * d + 1] = d * (out.n1 + out.n2)
        /\ \A k \in 1..(2 * d) : o[k] <= o[k + 1]
        /\ Len(out.vv) = 2 * d
        /\ out.assert_ok
        /\ Len(out.x) = d /\ Len(out.z) = d
        /\ \A j \in 1..d :
             /\ out.x[j] = out.vv[2 * (j - 1) + 1] /\ Len(out.x[j]) = out.n1
             /\ out.z[j] = out.vv[2 * (j - 1) + 2] /\ Len(out.z[j]) = out.n2
             /\ out.x[j] = NodeX(<<>>, out.v, j, out.n1, out.n2)
             /\ out.z[j] = NodeZ(out.v, j, out.n1, out.n2)
        /\ vertcat([k \in 1..(2 * d) |->
                      IF k % 2 = 1 THEN out.x[(k + 1) \div 2] ELSE out.z[k \div 2]])
             = out.v
        /\ out.x = CollocatedX(out.v, d, out.n1, out.n2)
        /\ out.z = CollocatedZ(out.v, d, out.n1, out.n2)

\* A vector of nine rows has been split for degree 3 with x of two rows and z
\* of one: six pieces, the last one row 9.
C29_Witness ==
  /\ out # <<>> /\ out.fn = "split"
  /\ out.deg = 3 /\ out.n1 = 2 /\ out.n2 = 1
  /\ out.offset = <<0, 2, 3, 5, 6, 8, 9>>
  /\ Len(out.vv) = 6 /\ out.assert_ok
  /\ out.x[2] = <<4, 5>> /\ out.z[3] = <<9>>

====
